---- MODULE Spec2Model ----
(***************************************************************************)
(* A model of the coronene Hex engine: the Board with its union-find       *)
(* connectivity (board.rs), the one-shot AtomicInitVec (atomic_vec.rs),    *)
(* tree expansion (graph.rs), the rollout policy and the MCTSPlayer        *)
(* (mctsplayer.rs).                                                        *)
(***************************************************************************)
EXTENDS Integers, Sequences, FiniteSets, TLC

VARIABLES
    board,      \* the Board under test / MCTSPlayer.board
    played,     \* the accepted Board::play calls of a scripted game, in order
    nops,       \* the number of calls made so far
    av,         \* an AtomicInitVec<usize> shared by threads, and its callers
    ex,         \* a tree node, the position at it and the workers expanding it
    ro,         \* one roll_out call: its board, its local list and its progress
    pl,         \* the player, the protocol loop driving it and its search thread
    tx,         \* a position written as text and read back
    htp,        \* the protocol session: the lines read and the responses written
    ws,         \* the search threads of one search and the tree they share
    rc          \* a board of any width and height, and whether an index panicked

vars == <<board, played, nops, av, ex, ro, pl, tx, htp, ws, rc>>

-----------------------------------------------------------------------------
(* Bounds of the model.                                                    *)

MaxOps == 4         \* calls a board specification makes at most
NumThreads == 2     \* threads sharing the AtomicInitVec
MaxCalls == 2       \* init calls one thread makes at most
NumWorkers == 2     \* search workers expanding the same node
MaxSetup == 1       \* stones on the board before the workers start
MaxLead == 3        \* stones on the board before roll_out is called
MaxCmds == 3        \* commands read by the protocol loop
MaxIters == 3       \* rollouts of one search
MaxLines == 2       \* lines read by the protocol session
WorkerIters == 1    \* iterations of one search thread among several
MaxRectOps == 3     \* operations on a board of any width and height
ScenarioSize == 5   \* side of the board of the concrete scenarios

\* the sides of the square boards the board specifications are run on
BoardSizes == {2, 3}
PlayerSizes == {1, 2}
RectSizes == 1..3

-----------------------------------------------------------------------------
(* Color, Pos, Move (board.rs).                                            *)

Colors == {"Black", "White"}

invert(c) == IF c = "Black" THEN "White" ELSE "Black"

\* impl From<bool> for Color
ColorFromBool(v) == IF v THEN "White" ELSE "Black"

\* impl From<Color> for bool
BoolFromColor(c) == c = "White"

\* `val as usize`: Black = 0, White = 1
ColorIdx(c) == IF c = "White" THEN 1 ELSE 0

Pos(x, y) == [x |-> x, y |-> y]

PosAdd(p, q) == [x |-> p.x + q.x, y |-> p.y + q.y]

area(d) == d.x * d.y

Resign == [kind |-> "Resign"]

MoveNone == [kind |-> "None"]

MovePlay(c, p) == [kind |-> "Play", color |-> c, pos |-> p]

-----------------------------------------------------------------------------
(* QuickUnionUf<UnionBySize>: a disjoint-set forest, kept as the map from  *)
(* each element to the representative of its class (the least element).    *)

UfNew(n) == [i \in 0..(n - 1) |-> i]

UfFind(uf, i) == uf[i]

UfUnion(uf, a, b) ==
    LET ra == uf[a]
        rb == uf[b]
        r  == IF ra < rb THEN ra ELSE rb
    IN  [i \in DOMAIN uf |-> IF uf[i] = ra \/ uf[i] = rb THEN r ELSE uf[i]]

-----------------------------------------------------------------------------
(* Board (board.rs).  An Option<Color> is "None", "Black" or "White"; an   *)
(* Option<usize> is the index or -1.                                       *)

BoardNew(dims) ==
    [dims        |-> dims,
     colors      |-> [i \in 0..(area(dims) - 1) |-> FALSE],
     empty_cells |-> [i \in 0..(area(dims) - 1) |-> TRUE],
     to_play     |-> "Black",
     groups      |-> [c \in 0..1 |-> UfNew(area(dims) + 2)],
     last_move   |-> MoveNone,
     winner      |-> "None"]

on_board(b, pos) ==
    pos.x >= 0 /\ pos.y >= 0 /\ pos.x < b.dims.x /\ pos.y < b.dims.y

idx_of(b, pos) ==
    IF on_board(b, pos) THEN pos.y * b.dims.y + pos.x ELSE -1

\* edge_idx with one index for both sentinels
edge_idx_same(b, edge) == area(b.dims)

edge_idx(b, edge) == area(b.dims) + edge

\* group_idx with the two sentinels exchanged
group_idx_swapped(b, pos) ==
    IF idx_of(b, pos) # -1 THEN idx_of(b, pos)
    ELSE IF pos.x = -1 \/ pos.y = -1 THEN edge_idx(b, 1)
    ELSE IF pos.x = b.dims.x \/ pos.y = b.dims.y THEN edge_idx(b, 0)
    ELSE -1

group_idx(b, pos) ==
    IF idx_of(b, pos) # -1 THEN idx_of(b, pos)
    ELSE IF pos.x = -1 \/ pos.y = -1 THEN edge_idx(b, 0)
    ELSE IF pos.x = b.dims.x \/ pos.y = b.dims.y THEN edge_idx(b, 1)
    ELSE -1

\* get with White and Black edges exchanged
get_edges_swapped(b, pos) ==
    LET idx == idx_of(b, pos) IN
    IF idx # -1
    THEN IF b.empty_cells[idx] THEN "None" ELSE ColorFromBool(b.colors[idx])
    ELSE IF (pos.x < 0 \/ pos.x >= b.dims.x) /\ pos.y >= 0 /\ pos.y < b.dims.y
         THEN "Black"
    ELSE IF (pos.y < 0 \/ pos.y >= b.dims.y) /\ pos.x >= 0 /\ pos.x < b.dims.x
         THEN "White"
    ELSE "None"

get(b, pos) ==
    LET idx == idx_of(b, pos) IN
    IF idx # -1
    THEN IF b.empty_cells[idx] THEN "None" ELSE ColorFromBool(b.colors[idx])
    ELSE IF (pos.x < 0 \/ pos.x >= b.dims.x) /\ pos.y >= 0 /\ pos.y < b.dims.y
         THEN "White"
    ELSE IF (pos.y < 0 \/ pos.y >= b.dims.y) /\ pos.x >= 0 /\ pos.x < b.dims.x
         THEN "Black"
    ELSE "None"

is_empty(b, pos) == get(b, pos) = "None"

neighbor_patterns ==
    <<Pos(-1, 0), Pos(0, -1), Pos(-1, 1), Pos(0, 1), Pos(1, 0), Pos(1, -1)>>

\* the loop of update_groups from pattern k on
RECURSIVE update_groups_from(_, _, _, _)
update_groups_from(b, pos, val, k) ==
    IF k > Len(neighbor_patterns) THEN b
    ELSE LET cell == PosAdd(pos, neighbor_patterns[k])
             b2   == IF get(b, cell) = val
                     THEN [b EXCEPT !.groups[ColorIdx(val)] =
                              UfUnion(@, idx_of(b, pos), group_idx(b, cell))]
                     ELSE b
         IN  update_groups_from(b2, pos, val, k + 1)

update_groups(b, pos) ==
    LET val == get(b, pos) IN
    IF val = "None" THEN b ELSE update_groups_from(b, pos, val, 1)

update_winner(b) ==
    LET edge0 == edge_idx(b, 0)
        edge1 == edge_idx(b, 1)
        joined(i) == UfFind(b.groups[i], edge0) = UfFind(b.groups[i], edge1)
    IN  [b EXCEPT !.winner = IF joined(1) THEN ColorFromBool(TRUE)
                             ELSE IF joined(0) THEN ColorFromBool(FALSE)
                             ELSE "None"]

\* the two nested loops of rebuild_groups, from the k-th (x, y) pair on
RECURSIVE rebuild_groups_from(_, _)
rebuild_groups_from(b, k) ==
    IF k >= b.dims.x * b.dims.y THEN b
    ELSE rebuild_groups_from(
             update_groups(b, Pos(k \div b.dims.y, k % b.dims.y)), k + 1)

rebuild_groups(b) ==
    update_winner(rebuild_groups_from(
        [b EXCEPT !.groups = [c \in 0..1 |-> UfNew(area(b.dims) + 2)]], 0))

\* Board::set: the board after the call and the returned flag
set(b, pos, val) ==
    LET idx == idx_of(b, pos) IN
    IF idx = -1 THEN [b |-> b, ret |-> FALSE]
    ELSE LET b1 == [b EXCEPT !.empty_cells[idx] = (val = "None")] IN
         IF val # "None"
         THEN [b   |-> update_winner(update_groups(
                          [b1 EXCEPT !.colors[idx] = BoolFromColor(val)], pos)),
               ret |-> TRUE]
         ELSE [b |-> rebuild_groups(b1), ret |-> TRUE]

clear_cell(b, pos) == set(b, pos, "None").b

\* Board::play: the board after the call and the returned flag
play(b, m) ==
    IF m.kind # "Play" THEN [b |-> b, ret |-> TRUE]
    ELSE IF ~is_empty(b, m.pos) THEN [b |-> b, ret |-> FALSE]
    ELSE set([b EXCEPT !.to_play = invert(m.color), !.last_move = m],
             m.pos, m.color)

-----------------------------------------------------------------------------
(* Hex connectivity, stated on the cells alone.  A position is occupied   *)
(* by c when get returns Some(c): the stones of c and, off the board, the  *)
(* cells of c's two virtual edge rows or columns.                          *)

Cells(b) == {Pos(x, y) : x \in 0..(b.dims.x - 1), y \in 0..(b.dims.y - 1)}

\* the board and the ring of virtual cells around it
Field(b) == {Pos(x, y) : x \in -1..b.dims.x, y \in -1..b.dims.y}

HexDirs == {Pos(-1, 0), Pos(0, -1), Pos(1, -1), Pos(1, 0), Pos(0, 1), Pos(-1, 1)}

Adjacent(p, q) == \E d \in HexDirs : PosAdd(p, d) = q

Stones(b, c) == {p \in Cells(b) : get(b, p) = c}

Occupied(b, c) == {p \in Field(b) : get(b, p) = c}

\* the positions occupied by c that a path of adjacent positions occupied
\* by c joins to a position of S
RECURSIVE Chain(_, _, _)
Chain(b, c, S) ==
    LET T == S \cup {q \in Occupied(b, c) : \E p \in S : Adjacent(p, q)}
    IN  IF T = S THEN S ELSE Chain(b, c, T)

PathJoined(b, c, p, q) == q \in Chain(b, c, {p})

\* the cells of colour c's first (e = 0) and second (e = 1) edge
EdgeCells(b, c, e) ==
    {p \in Cells(b) :
        IF c = "Black" THEN p.y = (IF e = 0 THEN 0 ELSE b.dims.y - 1)
                       ELSE p.x = (IF e = 0 THEN 0 ELSE b.dims.x - 1)}

SameRoot(b, c, i, j) ==
    UfFind(b.groups[ColorIdx(c)], i) = UfFind(b.groups[ColorIdx(c)], j)

-----------------------------------------------------------------------------
(* AtomicInitVec (atomic_vec.rs).  A pointer is the identity of a boxed    *)
(* vector, [owner, call], and the null pointer is NullPtr; the heap maps   *)
(* the live boxes to their vectors.                                        *)

NullPtr == [owner |-> 0, call |-> 0]

\* AtomicPtr::swap in the place of compare_and_swap: stores unconditionally
swap(ptr, current, new) == [ptr |-> new, old |-> ptr]

\* AtomicPtr::compare_and_swap: the pointer after the call and the value read
compare_and_swap(ptr, current, new) ==
    [ptr |-> IF ptr = current THEN new ELSE ptr, old |-> ptr]

\* AtomicInitVec::slice, given the pointer and the heap
slice(ptr, heap) == IF ptr = NullPtr THEN <<>> ELSE heap[ptr]

\* mem::drop(Box::from_raw(p))
drop_box(heap, p) == [q \in DOMAIN heap \ {p} |-> heap[q]]

Threads == 1..NumThreads

\* the vectors handed to init
Vectors == {<<1, 2, 3>>, <<4, 3>>}

\* AtomicInitVec::new, with no call in progress
AvNew ==
    [ptr   |-> NullPtr,
     heap  |-> [p \in {} |-> <<>>],
     pc    |-> [t \in Threads |-> "idle"],
     box   |-> [t \in Threads |-> NullPtr],
     calls |-> [t \in Threads |-> 0],
     rets  |-> [t \in Threads |-> <<>>],
     seen  |-> [t \in Threads |-> [read |-> FALSE, published |-> FALSE, val |-> <<>>]],
     won   |-> <<>>,
     raced |-> FALSE]

-----------------------------------------------------------------------------
(* Expansion of a tree node by concurrent workers (SearchThread::expand,   *)
(* NodeRef::add_children).  Nodes are numbered: the expanded node is 0,    *)
(* the k-th node worker w allocates is 100 * w + k.  A parent link is the  *)
(* parent's number, or -1 for None.                                        *)

\* Iter::next: the position for the bit at index idx
iter_pos(dims, idx) == Pos(idx % dims.x, idx \div dims.y)

\* the indices of the set bits of empty_cells, ascending
empty_indices(b) ==
    SelectSeq([i \in 1..area(b.dims) |-> i - 1], LAMBDA i : b.empty_cells[i])

\* Board::iter_empty: the empty cells in index order
iter_empty(b) ==
    [k \in 1..Len(empty_indices(b)) |-> iter_pos(b.dims, empty_indices(b)[k])]

\* expand with a child for every cell of the board, empty or not
expand_every_cell(color, state) ==
    [k \in 1..area(state.dims) |-> MovePlay(color, iter_pos(state.dims, k - 1))]

\* expand with the children given to the colour that is not to play
expand_opponent(color, state) ==
    [k \in 1..Len(iter_empty(state)) |-> MovePlay(invert(color), iter_empty(state)[k])]

\* expand: the actions of the children built, in order
expand_children(color, state) ==
    [k \in 1..Len(iter_empty(state)) |-> MovePlay(color, iter_empty(state)[k])]

\* Node::new(MCTSNode::new(action))
NodeNew(action) == [action |-> action, parent |-> -1]

Workers == 1..NumWorkers

ExNew(dims) ==
    [state   |-> BoardNew(dims),
     phase   |-> "setup",
     nodes   |-> (0 :> NodeNew(MoveNone)),
     ptr     |-> NullPtr,
     heap    |-> [p \in {} |-> <<>>],
     pc      |-> [w \in Workers |-> "start"],
     i       |-> [w \in Workers |-> 0],
     seen    |-> [w \in Workers |-> <<>>],
     orphans |-> FALSE,
     raced   |-> FALSE]

-----------------------------------------------------------------------------
(* The rollout policy (SearchThread::must_play, SearchThread::roll_out).   *)

\* the ring of a grid whose diagonal runs the other way
bridge_patterns_mirrored ==
    <<Pos(-1, 0), Pos(-1, -1), Pos(0, -1), Pos(1, 0), Pos(1, 1), Pos(0, 1)>>

bridge_patterns ==
    <<Pos(-1, 0), Pos(0, -1), Pos(1, -1), Pos(1, 0), Pos(0, 1), Pos(-1, 1)>>

\* neighbor_patterns[i % num_pat] with the patterns numbered from 0
pattern(i) == bridge_patterns[(i % Len(bridge_patterns)) + 1]

\* a save-bridge loop that does not ask for the answering cell to be empty
RECURSIVE save_bridge_filled(_, _, _, _)
save_bridge_filled(state, pos, i, last) ==
    IF i >= last THEN MoveNone
    ELSE LET end_a == PosAdd(pos, pattern(i))
             end_b == PosAdd(pos, pattern(i + 2))
             resp  == PosAdd(pos, pattern(i + 1))
         IN  IF /\ get(state, end_a) = state.to_play
                /\ get(state, end_a) = get(state, end_b)
             THEN MovePlay(state.to_play, resp)
             ELSE save_bridge_filled(state, pos, i + 1, last)

\* the save-bridge loop of must_play: for i in from..last
RECURSIVE save_bridge(_, _, _, _)
save_bridge(state, pos, i, last) ==
    IF i >= last THEN MoveNone
    ELSE LET end_a == PosAdd(pos, pattern(i))
             end_b == PosAdd(pos, pattern(i + 2))
             resp  == PosAdd(pos, pattern(i + 1))
         IN  IF /\ get(state, end_a) = state.to_play
                /\ get(state, end_a) = get(state, end_b)
                /\ get(state, resp) = "None"
             THEN MovePlay(state.to_play, resp)
             ELSE save_bridge(state, pos, i + 1, last)

\* must_play without its first test, the one that ends a decided game
must_play_ignoring_winner(state, start) ==
    IF state.last_move.kind = "Play"
    THEN save_bridge(state, state.last_move.pos, start,
                     Len(bridge_patterns) + start)
    ELSE MoveNone

\* must_play, with start the value drawn by gen_range(0, num_pat)
must_play(state, start) ==
    IF state.winner # "None" THEN Resign
    ELSE IF state.last_move.kind = "Play"
         THEN save_bridge(state, state.last_move.pos, start,
                          Len(bridge_patterns) + start)
    ELSE MoveNone

\* Vec::remove(idx), idx counted from 0
remove(v, idx) == [k \in 1..(Len(v) - 1) |-> IF k <= idx THEN v[k] ELSE v[k + 1]]

\* iter().position(|&x| x == pos): the index from 0, or -1 for None
position(v, pos) ==
    IF \E k \in 1..Len(v) : v[k] = pos
    THEN (CHOOSE k \in 1..Len(v) : v[k] = pos /\ \A j \in 1..(k - 1) : v[j] # pos) - 1
    ELSE -1

\* one pass of the loop of roll_out, for the values start and pos_idx the
\* random generator gives: the rollout after it
roll_out_step(r, start, pos_idx) ==
    LET mp == must_play(r.state, start) IN
    IF mp.kind = "Resign"
    THEN [r EXCEPT !.phase = "done"]
    ELSE IF mp.kind = "None" /\ Len(r.empty_cells) = 0
    THEN [r EXCEPT !.phase = "panic", !.why = "gen_range on an empty range"]
    ELSE IF mp.kind = "Play" /\ position(r.empty_cells, mp.pos) = -1
    THEN [r EXCEPT !.phase = "panic", !.why = "forced move not in empty_cells"]
    ELSE LET idx == IF mp.kind = "None" THEN pos_idx
                    ELSE position(r.empty_cells, mp.pos)
             m   == IF mp.kind = "None"
                    THEN MovePlay(r.state.to_play, r.empty_cells[idx + 1])
                    ELSE mp
             res == play(r.state, m)
         IN  IF ~res.ret
             THEN [r EXCEPT !.phase = "panic", !.why = "roll out chose filled cell!",
                            !.empty_cells = remove(r.empty_cells, idx)]
             ELSE [r EXCEPT !.state = res.b,
                            !.empty_cells = remove(r.empty_cells, idx),
                            !.moves = @ + 1,
                            !.forced = @ \/ mp.kind = "Play"]

RoNew(dims) ==
    [state       |-> BoardNew(dims),
     phase       |-> "lead",
     empty_cells |-> <<>>,
     at_start    |-> 0,
     moves       |-> 0,
     forced      |-> FALSE,
     why         |-> ""]

-----------------------------------------------------------------------------
(* The search tree and the player (MCTSNode, Node, SearchThread,           *)
(* MCTSPlayer).  A node is a record holding its children; a node of the    *)
(* tree is named by its path, the child numbers from the root down.        *)
(* NUM_THREADS is 1: one search thread runs at a time.                     *)

NUM_THREADS == 1

StatsNew == [n |-> 0, q |-> 0]

\* NodeRef::new(MCTSNode::new(action)); parent is Node::parent().is_some()
MCTSNodeNew(action) ==
    [action   |-> action,
     mc       |-> StatsNew,
     rave     |-> StatsNew,
     parent   |-> FALSE,
     children |-> <<>>]

\* a visit that leaves the counter alone
visit_not(node) == node

\* mc.visit(1)
visit(node) == [node EXCEPT !.mc.n = @ + 1]

\* a re-root that leaves the parent link of the new root in place
orphan_not(node) == node

\* Node::orphan
orphan(node) == [node EXCEPT !.parent = FALSE]

RECURSIVE NodeAt(_, _)
NodeAt(tree, path) ==
    IF path = <<>> THEN tree
    ELSE NodeAt(tree.children[Head(path)], Tail(path))

RECURSIVE ReplaceAt(_, _, _)
ReplaceAt(tree, path, node) ==
    IF path = <<>> THEN node
    ELSE [tree EXCEPT !.children[Head(path)] = ReplaceAt(@, Tail(path), node)]

Front(s) == SubSeq(s, 1, Len(s) - 1)

\* NodeRef::add_children on a node without children: the vector is
\* published and every child gets its parent link
add_children(node, actions) ==
    [node EXCEPT !.children =
        [k \in 1..Len(actions) |-> [MCTSNodeNew(actions[k]) EXCEPT !.parent = TRUE]]]

\* a choice of max_node that may fall on any child
max_nodes_any(node) == 1..Len(node.children)

\* select_node, the choice of max_node: a child with mc.n = 0 has value
\* INFINITY and the first such child wins the strict comparison; with every
\* child visited the f32 values of value() decide, and any child may win.
max_nodes(node) ==
    LET N == Len(node.children)
        unvisited == {k \in 1..N : node.children[k].mc.n = 0}
    IN  IF unvisited # {}
        THEN {CHOOSE k \in unvisited : \A j \in unvisited : k <= j}
        ELSE 1..N

\* Board::iter_filled: the filled cells as moves
iter_filled(b) ==
    {MovePlay(get(b, iter_pos(b.dims, i)), iter_pos(b.dims, i)) :
        i \in {j \in 0..(area(b.dims) - 1) : ~b.empty_cells[j]}}

\* Move::color, "None" for a move that is not a Play
color_of(m) == IF m.kind = "Play" THEN m.color ELSE "None"

\* a RAVE update that counts every child, played or not
rave_update_all(node, actions, reward) ==
    [node EXCEPT !.children =
        [k \in 1..Len(@) |->
            [@[k] EXCEPT !.rave.n = @ + 1, !.rave.q = @ + reward]]]

\* back_up, the RAVE update of the children of one node
rave_update(node, actions, reward) ==
    [node EXCEPT !.children =
        [k \in 1..Len(@) |->
            IF @[k].action \in actions
            THEN [@[k] EXCEPT !.rave.n = @ + 1, !.rave.q = @ + reward]
            ELSE @[k]]]

\* back_up whose loop hands the same reward to every level
RECURSIVE back_up_loop_no_flip(_, _, _, _)
back_up_loop_no_flip(tree, path, reward, actions) ==
    LET node     == NodeAt(tree, path)
        rewarded == ReplaceAt(tree, path, [node EXCEPT !.mc.q = @ + reward])
        seen     == actions \cup {node.action}
    IN  IF ~node.parent \/ path = <<>> THEN rewarded
        ELSE back_up_loop_no_flip(
                 ReplaceAt(rewarded, Front(path),
                           rave_update(NodeAt(rewarded, Front(path)), seen, reward)),
                 Front(path), reward, seen)

\* back_up, the loop: node is the node at path
RECURSIVE back_up_loop(_, _, _, _)
back_up_loop(tree, path, reward, actions) ==
    LET node     == NodeAt(tree, path)
        rewarded == ReplaceAt(tree, path, [node EXCEPT !.mc.q = @ + reward])
        seen     == actions \cup {node.action}
    IN  IF ~node.parent \/ path = <<>> THEN rewarded
        ELSE back_up_loop(
                 ReplaceAt(rewarded, Front(path),
                           rave_update(NodeAt(rewarded, Front(path)), seen, reward)),
                 Front(path), 1 - reward, seen)

back_up(tree, path, outcome, endgame) ==
    back_up_loop(tree, path,
                 IF outcome = color_of(NodeAt(tree, path).action) THEN 1 ELSE 0,
                 iter_filled(endgame))

\* best_move that samples among all the children of the root
best_nodes_any(tree) == 1..Len(tree.children)

\* best_move: the children with the largest number of visits
best_nodes(tree) ==
    {k \in 1..Len(tree.children) :
        \A j \in 1..Len(tree.children) :
            tree.children[j].mc.n <= tree.children[k].mc.n}

\* MCTSPlayer::new, with the board of the size given
MCTSPlayerNew(dims) ==
    [board |-> BoardNew(dims),
     tree  |-> MCTSNodeNew(MoveNone),
     moves |-> <<>>]

clear_tree(p) == [p EXCEPT !.tree = MCTSNodeNew(MoveNone)]

\* the first root child whose action is m, 0 when there is none
find_child(tree, m) ==
    LET hits == {k \in 1..Len(tree.children) : tree.children[k].action = m}
    IN  IF hits = {} THEN 0 ELSE CHOOSE k \in hits : \A j \in hits : k <= j

\* a play_move that records only the moves the board accepts
play_move_accepted(p, m) ==
    LET k      == find_child(p.tree, m)
        rooted == IF k # 0 THEN [p EXCEPT !.tree = orphan(p.tree.children[k])]
                  ELSE clear_tree(p)
        res    == play(p.board, m)
    IN  [p   |-> [rooted EXCEPT !.moves = IF res.ret THEN Append(@, m) ELSE @,
                                !.board = res.b],
         ret |-> res.ret]

\* a play_move that leaves the old root in place when a child matches
play_move_keeps_root(p, m) ==
    LET k      == find_child(p.tree, m)
        rooted == IF k # 0 THEN p ELSE clear_tree(p)
        res    == play(p.board, m)
    IN  [p   |-> [rooted EXCEPT !.moves = Append(@, m), !.board = res.b],
         ret |-> res.ret]

\* MCTSPlayer::play_move: the player after the call and the returned flag
play_move(p, m) ==
    LET k      == find_child(p.tree, m)
        rooted == IF k # 0 THEN [p EXCEPT !.tree = orphan(p.tree.children[k])]
                  ELSE clear_tree(p)
        res    == play(p.board, m)
    IN  [p   |-> [rooted EXCEPT !.moves = Append(@, m), !.board = res.b],
         ret |-> res.ret]

\* undo that pops the history and leaves the stone on the board
undo_keeps_stone(p) ==
    IF Len(p.moves) = 0 THEN p
    ELSE IF p.moves[Len(p.moves)].kind = "Play"
         THEN clear_tree([p EXCEPT !.moves = Front(@)])
    ELSE [p EXCEPT !.moves = Front(@)]

\* MCTSPlayer::undo
undo(p) ==
    IF Len(p.moves) = 0 THEN p
    ELSE LET m == p.moves[Len(p.moves)]
             popped == [p EXCEPT !.moves = Front(@)]
         IN  IF m.kind = "Play"
             THEN clear_tree([popped EXCEPT !.board = clear_cell(@, m.pos)])
             ELSE popped

\* MCTSPlayer::set_board_size
set_board_size(p, cols, rows) ==
    [clear_tree(p) EXCEPT !.board = BoardNew(Pos(cols, rows)), !.moves = <<>>]

\* the commands of the protocol loop and the search thread: cmds counts the
\* commands taken, pc is where generate_move stands, path the node of
\* select_node, iters the rollouts of this search
PlNew(dims) ==
    [p     |-> MCTSPlayerNew(dims),
     pc    |-> "idle",
     cmds  |-> 0,
     color |-> "None",
     iters |-> 0,
     path  |-> <<>>,
     prev  |-> "new",
     last  |-> "new",
     why   |-> ""]

-----------------------------------------------------------------------------
(* Text: a string is the sequence of its bytes.  Pos is read and written   *)
(* as a column letter followed by the row number counted from 1 (impl      *)
(* FromStr for Pos, impl Display for Pos).  Coord is i8: a sum that leaves *)
(* the range panics in a build with overflow checks and wraps in a build   *)
(* without them; checked says which build it is.                           *)

Letters == 26

I8 == -128..127

wrapping(n) == ((n + 128) % 256) - 128

\* str::to_lowercase on ASCII text
to_lowercase(s) ==
    [i \in 1..Len(s) |-> IF s[i] \in 65..(65 + Letters - 1) THEN s[i] + 32 ELSE s[i]]

to_uppercase(s) ==
    [i \in 1..Len(s) |-> IF s[i] \in 97..(97 + Letters - 1) THEN s[i] - 32 ELSE s[i]]

\* the value of a sequence of decimal digits
RECURSIVE digits_value(_)
digits_value(s) ==
    IF s = <<>> THEN 0
    ELSE 10 * digits_value(Front(s)) + (s[Len(s)] - 48)

\* str::parse::<i8>: an optional minus sign and at least one digit, within
\* the range of i8
parse_coord(s) ==
    LET neg    == s # <<>> /\ s[1] = 45
        digits == IF neg THEN Tail(s) ELSE s
        val    == IF neg THEN 0 - digits_value(digits) ELSE digits_value(digits)
    IN  IF digits = <<>> \/ \E i \in 1..Len(digits) : digits[i] \notin 48..57
        THEN [ok |-> FALSE]
        ELSE IF val \notin I8 THEN [ok |-> FALSE]
        ELSE [ok |-> TRUE, val |-> val]

\* the decimal digits of n >= 0
RECURSIVE decimal(_)
decimal(n) ==
    IF n < 10 THEN <<48 + n>>
    ELSE Append(decimal(n \div 10), 48 + (n % 10))

\* Display for i8
fmt_coord(n) == IF n < 0 THEN <<45>> \o decimal(0 - n) ELSE decimal(n)

\* FromStr for Pos that reads the column letter without to_lowercase
from_str_cased(s, checked) ==
    IF s = <<>> THEN [ok |-> FALSE, panic |-> TRUE]
    ELSE IF s[1] \notin 97..(97 + Letters - 1) THEN [ok |-> FALSE, panic |-> FALSE]
    ELSE IF ~parse_coord(Tail(s)).ok THEN [ok |-> FALSE, panic |-> FALSE]
    ELSE IF parse_coord(Tail(s)).val - 1 \notin I8 /\ checked
         THEN [ok |-> FALSE, panic |-> TRUE]
    ELSE [ok |-> TRUE, panic |-> FALSE,
          pos |-> Pos(s[1] - 97, wrapping(parse_coord(Tail(s)).val - 1))]

\* impl FromStr for Pos: Ok(pos), Err(()), or the panic of b[0] on an empty
\* string and of y - 1 on i8::MIN
from_str(s, checked) ==
    LET b == to_lowercase(s) IN
    IF b = <<>> THEN [ok |-> FALSE, panic |-> TRUE]
    ELSE IF ~(b[1] >= 97 /\ b[1] <= 97 + Letters - 1) THEN [ok |-> FALSE, panic |-> FALSE]
    ELSE IF ~parse_coord(Tail(b)).ok THEN [ok |-> FALSE, panic |-> FALSE]
    ELSE IF parse_coord(Tail(b)).val - 1 \notin I8 /\ checked
         THEN [ok |-> FALSE, panic |-> TRUE]
    ELSE [ok |-> TRUE, panic |-> FALSE,
          pos |-> Pos(b[1] - 97, wrapping(parse_coord(Tail(b)).val - 1))]

\* impl Display for Pos: the text written, or the panic of x + 'A' and
\* y + 1 beyond i8::MAX; `as u8` of the column gives the byte
fmt_pos(p, checked) ==
    IF checked /\ (p.x + 65 \notin I8 \/ p.y + 1 \notin I8)
    THEN [panic |-> TRUE, text |-> <<>>]
    ELSE [panic |-> FALSE,
          text  |-> <<wrapping(p.x + 65) % 256>> \o fmt_coord(wrapping(p.y + 1))]

\* the texts typed for a position: a first byte and a row text
TypedFirst == {97, 65, 122, 90, 64, 49}
TypedRows == {<<>>, <<49>>, <<50, 54>>, <<48>>, <<45, 49>>, <<49, 50, 56>>,
              <<45, 49, 50, 56>>, <<49, 120>>}

TxNew ==
    [phase   |-> "start",
     checked |-> FALSE,
     from    |-> "",
     p       |-> Pos(0, 0),
     text    |-> <<>>,
     parsed  |-> [ok |-> FALSE, panic |-> FALSE]]

\* HTP::new and the loop of HTP::run before its first line: the lines read
\* so far and the responses written
HtpNew ==
    [status |-> "reading",
     input  |-> <<>>,
     out    |-> <<>>]

-----------------------------------------------------------------------------
(* The protocol loop (HTP::run): a line is the sequence of its words, the  *)
(* result of split_whitespace.                                             *)

\* "genmove"
w_genmove == <<103, 101, 110, 109, 111, 118, 101>>

\* "play"
w_play == <<112, 108, 97, 121>>

\* "undo"
w_undo == <<117, 110, 100, 111>>

\* "showboard"
w_showboard == <<115, 104, 111, 119, 98, 111, 97, 114, 100>>

\* "name"
w_name == <<110, 97, 109, 101>>

\* "version"
w_version == <<118, 101, 114, 115, 105, 111, 110>>

\* "hexgui-analyze_commands"
w_hexgui_analyze_commands == <<104, 101, 120, 103, 117, 105, 45, 97, 110, 97, 108, 121, 122, 101, 95, 99, 111, 109, 109, 97, 110, 100, 115>>

\* "boardsize"
w_boardsize == <<98, 111, 97, 114, 100, 115, 105, 122, 101>>

\* "quit"
w_quit == <<113, 117, 105, 116>>

\* "final_score"
w_final_score == <<102, 105, 110, 97, 108, 95, 115, 99, 111, 114, 101>>

\* "resign"
w_resign == <<114, 101, 115, 105, 103, 110>>

\* impl FromStr for Color: the first character of the lower-cased word
color_from_str(s) ==
    IF s = <<>> THEN [ok |-> FALSE]
    ELSE IF to_lowercase(s)[1] = 98 THEN [ok |-> TRUE, color |-> "Black"]
    ELSE IF to_lowercase(s)[1] = 119 THEN [ok |-> TRUE, color |-> "White"]
    ELSE [ok |-> FALSE]

\* the words typed for a colour: "b", "W", "x"
ColorWords == {<<98>>, <<87>>, <<120>>}

\* the words typed for a move: "a1", "B1", "c3", "resign", "1a", "a-128"
MoveWords == {<<97, 49>>, <<66, 49>>, <<99, 51>>, w_resign, <<49, 97>>, <<97, 45, 49, 50, 56>>}

\* the pairs of words typed for a board size: "0 0", "1 1", "2 2", "x 2",
\* "2 x"
SizeWords == {<<<<48>>, <<48>>>>, <<<<49>>, <<49>>>>, <<<<50>>, <<50>>>>, <<<<120>>, <<50>>>>, <<<<50>>, <<120>>>>}

\* the lines typed: every command shape, with good and bad arguments, with
\* an argument missing or too many, an unknown word and the blank line
Lines ==
    {<<w_genmove, c>> : c \in ColorWords}
        \cup {<<w_play, c, m>> : c \in ColorWords, m \in MoveWords}
        \cup {<<w_boardsize, sz[1], sz[2]>> : sz \in SizeWords}
        \cup {<<w_undo>>, <<w_showboard>>, <<w_name>>, <<w_version>>,
              <<w_hexgui_analyze_commands>>, <<w_quit>>, <<w_final_score>>}
        \cup {<<>>, <<w_genmove>>, <<w_undo, w_undo>>, <<<<102, 111, 111>>>>}

\* the arm of the match in HTP::run a line takes
arm(words) ==
    CASE Len(words) = 2 /\ words[1] = w_genmove -> "genmove"
      [] Len(words) = 3 /\ words[1] = w_play -> "play"
      [] Len(words) = 1 /\ words[1] = w_undo -> "undo"
      [] Len(words) = 1 /\ words[1] = w_showboard -> "showboard"
      [] Len(words) = 1 /\ words[1] = w_name -> "name"
      [] Len(words) = 1 /\ words[1] = w_version -> "version"
      [] Len(words) = 1 /\ words[1] = w_hexgui_analyze_commands -> "hexgui-analyze_commands"
      [] Len(words) = 3 /\ words[1] = w_boardsize -> "boardsize"
      [] Len(words) = 1 /\ words[1] = w_quit -> "quit"
      [] Len(words) = 1 /\ words[1] = w_final_score -> "final_score"
      [] OTHER -> "_"

\* write_ok and write_err: the response appended to the output
write_ok(h, msg) == [h EXCEPT !.out = Append(@, [mark |-> "= ", msg |-> msg])]
write_err(h, msg) == [h EXCEPT !.out = Append(@, [mark |-> "? ", msg |-> msg])]

\* the move of a play command: Ok(m), or the error try_htp! answers with,
\* or the panic of the parser
play_arg(color, pos, checked) ==
    IF pos = w_resign THEN [ok |-> TRUE, panic |-> FALSE, m |-> Resign]
    ELSE IF ~color_from_str(color).ok
         THEN [ok |-> FALSE, panic |-> FALSE, err |-> "invalid color"]
    ELSE IF from_str(pos, checked).panic
         THEN [ok |-> FALSE, panic |-> TRUE]
    ELSE IF ~from_str(pos, checked).ok
         THEN [ok |-> FALSE, panic |-> FALSE, err |-> "invalid move"]
    ELSE [ok |-> TRUE, panic |-> FALSE,
          m |-> MovePlay(color_from_str(color).color, from_str(pos, checked).pos)]

-----------------------------------------------------------------------------
(* Several search threads on one tree (MCTSPlayer::search spawning more    *)
(* than one SearchThread).  Every access to the shared tree is a step of   *)
(* its own: the atomic counters, the children vector, the parent links.    *)
(* roll_out works on the thread's own board and is taken in one step.      *)

\* the rollouts that have ended among rs, after running the others on
RECURSIVE roll_outs(_)
roll_outs(rs) ==
    LET running == {r \in rs : r.phase = "loop"} IN
    IF running = {} THEN rs
    ELSE roll_outs((rs \ running) \cup UNION {
            {roll_out_step(r, start, pos_idx) :
                start \in 0..(Len(bridge_patterns) - 1),
                pos_idx \in 0..(IF Len(r.empty_cells) = 0 THEN 0
                                ELSE Len(r.empty_cells) - 1)} :
            r \in running})

\* a SearchThread before its first iteration
WorkerNew(b) ==
    [pc      |-> "start",
     iters   |-> 0,
     path    |-> <<>>,
     state   |-> b,
     k       |-> 0,
     reward  |-> 0,
     actions |-> {}]

\* the tree shared by the workers, the board they clone, and rewarded: how
\* often back_up has called mc.reward on the node at each path
WsNew(dims) ==
    [phase    |-> "lead",
     board    |-> BoardNew(dims),
     tree     |-> MCTSNodeNew(MoveNone),
     w        |-> [t \in Workers |-> WorkerNew(BoardNew(dims))],
     rewarded |-> [p \in {} |-> 0]]

\* the paths of the nodes of a tree
RECURSIVE Paths(_)
Paths(tree) ==
    {<<>>} \cup UNION {{<<k>> \o p : p \in Paths(tree.children[k])} :
                          k \in 1..Len(tree.children)}

\* rewarded with one more call on the node at path
Rewarded(f, path) ==
    IF path \in DOMAIN f THEN [f EXCEPT ![path] = @ + 1] ELSE (path :> 1) @@ f

-----------------------------------------------------------------------------
(* Boards of any width and height (Board::new from set_board_size(cols,    *)
(* rows)).  colors and empty_cells are BitVecs of dims.area() bits; reading *)
(* or writing a bit at an index beyond them panics.                        *)

\* idx_of gives pos an index outside the cell arrays
outside_arrays(b, pos) == on_board(b, pos) /\ idx_of(b, pos) >= area(b.dims)

\* Board::play(m) panics: in is_empty's get(pos), or, once the cell is set,
\* in update_groups' get of a neighbour
play_panics(b, m) ==
    /\ m.kind = "Play"
    /\ IF outside_arrays(b, m.pos) THEN TRUE
       ELSE /\ on_board(b, m.pos)
            /\ is_empty(b, m.pos)
            /\ \E k \in 1..Len(neighbor_patterns) :
                  outside_arrays(b, PosAdd(m.pos, neighbor_patterns[k]))

\* Board::clear_cell(pos) panics: in empty_cells.set, or in the get of
\* rebuild_groups' pass over every cell
clear_panics(b, pos) ==
    on_board(b, pos) /\ \E x \in 0..(b.dims.x - 1), y \in 0..(b.dims.y - 1) :
                            outside_arrays(b, Pos(x, y))

RcNew(dims) == [b |-> BoardNew(dims), status |-> "ok", n |-> 0]

-----------------------------------------------------------------------------
(* The threads calling AtomicInitVec::init and slice.                      *)

\* init: let items_ptr = Box::into_raw(Box::new(items))
AvInitCall(t) ==
    \E items \in Vectors :
        /\ av.pc[t] = "idle"
        /\ av.calls[t] < MaxCalls
        /\ LET p == [owner |-> t, call |-> av.calls[t] + 1] IN
           av' = [av EXCEPT !.pc[t] = "load", !.box[t] = p,
                            !.calls[t] = @ + 1,
                            !.heap = (p :> items) @@ av.heap]
        /\ UNCHANGED <<board, played, nops, ex, ro, pl, tx, htp, ws, rc>>

\* init: if self.ptr.load() != null { drop; return false }
AvInitLoad(t) ==
    /\ av.pc[t] = "load"
    /\ IF av.ptr # NullPtr
       THEN av' = [av EXCEPT !.pc[t] = "idle",
                             !.heap = drop_box(av.heap, av.box[t]),
                             !.rets[t] = Append(@, FALSE)]
       ELSE av' = [av EXCEPT !.pc[t] = "cas"]
    /\ UNCHANGED <<board, played, nops, ex, ro, pl, tx, htp, ws, rc>>

\* init: if self.ptr.compare_and_swap(null, items_ptr) == null { return true }
AvInitCas(t) ==
    /\ av.pc[t] = "cas"
    /\ LET r == compare_and_swap(av.ptr, NullPtr, av.box[t]) IN
       IF r.old = NullPtr
       THEN av' = [av EXCEPT !.ptr = r.ptr, !.pc[t] = "idle",
                             !.rets[t] = Append(@, TRUE),
                             !.won = Append(@, av.heap[av.box[t]])]
       ELSE av' = [av EXCEPT !.ptr = r.ptr, !.pc[t] = "load", !.raced = TRUE]
    /\ UNCHANGED <<board, played, nops, ex, ro, pl, tx, htp, ws, rc>>

\* slice, called between two init calls of the thread; the caller notes
\* whether an init had returned true by then; won lists the vectors of the
\* calls that returned true, raced tells that a compare-and-swap has failed
AvSlice(t) ==
    /\ av.pc[t] = "idle"
    /\ av.ptr = NullPtr \/ av.ptr \in DOMAIN av.heap
    /\ av' = [av EXCEPT !.seen[t] = [read |-> TRUE,
                                     published |-> av.won # <<>>,
                                     val |-> slice(av.ptr, av.heap)]]
    /\ UNCHANGED <<board, played, nops, ex, ro, pl, tx, htp, ws, rc>>

InitAtomicVec ==
    /\ av = AvNew
    /\ board = BoardNew(Pos(1, 1))
    /\ played = <<>>
    /\ nops = 0
    /\ ex = ExNew(Pos(1, 1))
    /\ ro = RoNew(Pos(1, 1))
    /\ pl = PlNew(Pos(1, 1))
    /\ tx = TxNew
    /\ htp = HtpNew
    /\ ws = WsNew(Pos(1, 1))
    /\ rc = RcNew(Pos(1, 1))

NextAtomicVec ==
    \E t \in Threads :
        AvInitCall(t) \/ AvInitLoad(t) \/ AvInitCas(t) \/ AvSlice(t)

SpecAtomicVec == InitAtomicVec /\ [][NextAtomicVec]_vars

-----------------------------------------------------------------------------
(* The workers expanding one node.                                         *)

\* the position at the node is reached by accepted plays
ExSetupPlay ==
    \E c \in Colors, p \in Cells(ex.state) :
        /\ ex.phase = "setup"
        /\ Len(iter_empty(ex.state)) > area(ex.state.dims) - MaxSetup
        /\ play(ex.state, MovePlay(c, p)).ret
        /\ ex' = [ex EXCEPT !.state = play(ex.state, MovePlay(c, p)).b]
        /\ UNCHANGED <<board, played, nops, av, ro, pl, tx, htp, ws, rc>>

\* select_node reaches the node: if state.winner().is_none() { expand }
ExStart ==
    /\ ex.phase = "setup"
    /\ ex.state.winner = "None"
    /\ ex' = [ex EXCEPT !.phase = "run"]
    /\ UNCHANGED <<board, played, nops, av, ro, pl, tx, htp, ws, rc>>

\* expand builds the children; init boxes the vector
ExBuild(w) ==
    /\ ex.phase = "run"
    /\ ex.pc[w] = "start"
    /\ LET acts == expand_children(ex.state.to_play, ex.state)
           ids  == [k \in 1..Len(acts) |-> 100 * w + k]
           new  == [n \in {ids[k] : k \in 1..Len(acts)} |->
                       NodeNew(acts[CHOOSE k \in 1..Len(acts) : ids[k] = n])]
           p    == [owner |-> w, call |-> 1]
       IN  ex' = [ex EXCEPT !.nodes = new @@ ex.nodes,
                            !.heap = (p :> ids) @@ ex.heap,
                            !.pc[w] = "load"]
    /\ UNCHANGED <<board, played, nops, av, ro, pl, tx, htp, ws, rc>>

\* init: the vector is already there; the candidate vector and its nodes
\* are dropped and add_children does nothing more
ExLoad(w) ==
    /\ ex.pc[w] = "load"
    /\ LET p == [owner |-> w, call |-> 1] IN
       IF ex.ptr # NullPtr
       THEN ex' = [ex EXCEPT
                      !.pc[w] = "read",
                      !.heap = drop_box(ex.heap, p),
                      !.nodes = [n \in DOMAIN ex.nodes \
                                    {ex.heap[p][k] : k \in 1..Len(ex.heap[p])}
                                 |-> ex.nodes[n]]]
       ELSE ex' = [ex EXCEPT !.pc[w] = "cas"]
    /\ UNCHANGED <<board, played, nops, av, ro, pl, tx, htp, ws, rc>>

ExCas(w) ==
    /\ ex.pc[w] = "cas"
    /\ LET r == compare_and_swap(ex.ptr, NullPtr, [owner |-> w, call |-> 1]) IN
       IF r.old = NullPtr
       THEN ex' = [ex EXCEPT !.ptr = r.ptr, !.pc[w] = "parents", !.i[w] = 1]
       ELSE ex' = [ex EXCEPT !.ptr = r.ptr, !.pc[w] = "load", !.raced = TRUE]
    /\ UNCHANGED <<board, played, nops, av, ro, pl, tx, htp, ws, rc>>

\* add_children: for child in self.children() { child.parent = Some(self) }
ExSetParent(w) ==
    /\ ex.pc[w] = "parents"
    /\ LET kids == slice(ex.ptr, ex.heap) IN
       IF ex.i[w] > Len(kids)
       THEN ex' = [ex EXCEPT !.pc[w] = "read"]
       ELSE ex' = [ex EXCEPT !.nodes[kids[ex.i[w]]].parent = 0,
                             !.i[w] = @ + 1]
    /\ UNCHANGED <<board, played, nops, av, ro, pl, tx, htp, ws, rc>>

\* back in select_node: node.get().children(); orphans notes that a child
\* read here had no parent link yet
ExRead(w) ==
    /\ ex.pc[w] = "read"
    /\ LET kids == slice(ex.ptr, ex.heap) IN
       ex' = [ex EXCEPT !.seen[w] = kids,
                        !.pc[w] = "done",
                        !.orphans = @ \/ \E k \in 1..Len(kids) :
                                              ex.nodes[kids[k]].parent = -1]
    /\ UNCHANGED <<board, played, nops, av, ro, pl, tx, htp, ws, rc>>

InitExpand ==
    /\ \E n \in BoardSizes : ex = ExNew(Pos(n, n))
    /\ board = BoardNew(Pos(1, 1))
    /\ played = <<>>
    /\ nops = 0
    /\ av = AvNew
    /\ ro = RoNew(Pos(1, 1))
    /\ pl = PlNew(Pos(1, 1))
    /\ tx = TxNew
    /\ htp = HtpNew
    /\ ws = WsNew(Pos(1, 1))
    /\ rc = RcNew(Pos(1, 1))

NextExpand ==
    \/ ExSetupPlay
    \/ ExStart
    \/ \E w \in Workers :
          ExBuild(w) \/ ExLoad(w) \/ ExCas(w) \/ ExSetParent(w) \/ ExRead(w)

SpecExpand == InitExpand /\ [][NextExpand]_vars

-----------------------------------------------------------------------------
(* roll_out called on the positions of legal play.                         *)

\* the game so far: accepted plays of either colour while nobody has won
RoLeadPlay ==
    \E c \in Colors, p \in Cells(ro.state) :
        /\ ro.phase = "lead"
        /\ ro.state.winner = "None"
        /\ Len(iter_empty(ro.state)) > area(ro.state.dims) - MaxLead
        /\ play(ro.state, MovePlay(c, p)).ret
        /\ ro' = [ro EXCEPT !.state = play(ro.state, MovePlay(c, p)).b]
        /\ UNCHANGED <<board, played, nops, av, ex, pl, tx, htp, ws, rc>>

\* roll_out: let mut empty_cells = state.iter_empty().collect()
RoStart ==
    /\ ro.phase = "lead"
    /\ ro.state.winner = "None"
    /\ ro' = [ro EXCEPT !.phase = "loop",
                        !.empty_cells = iter_empty(ro.state),
                        !.at_start = Len(iter_empty(ro.state))]
    /\ UNCHANGED <<board, played, nops, av, ex, pl, tx, htp, ws, rc>>

\* roll_out: one pass of the loop
RoStep ==
    \E start \in 0..(Len(bridge_patterns) - 1) :
        \E pos_idx \in 0..(IF Len(ro.empty_cells) = 0 THEN 0
                            ELSE Len(ro.empty_cells) - 1) :
            /\ ro.phase = "loop"
            /\ ro' = roll_out_step(ro, start, pos_idx)
            /\ UNCHANGED <<board, played, nops, av, ex, pl, tx, htp, ws, rc>>

InitRollout ==
    /\ \E n \in BoardSizes : ro = RoNew(Pos(n, n))
    /\ board = BoardNew(Pos(1, 1))
    /\ played = <<>>
    /\ nops = 0
    /\ av = AvNew
    /\ ex = ExNew(Pos(1, 1))
    /\ pl = PlNew(Pos(1, 1))
    /\ tx = TxNew
    /\ htp = HtpNew
    /\ ws = WsNew(Pos(1, 1))
    /\ rc = RcNew(Pos(1, 1))

NextRollout == RoLeadPlay \/ RoStart \/ RoStep

SpecRollout == InitRollout /\ [][NextRollout]_vars

-----------------------------------------------------------------------------
(* The player driven by the protocol loop: play, undo, boardsize and       *)
(* genmove, the last one in steps: the search thread's select_node,        *)
(* roll_out and back_up, then best_move and play_move.                     *)

\* the positions tried: the board, one position beyond an edge and one
\* beyond a corner
PlayerTried(dims) ==
    {Pos(x, y) : x \in 0..(dims.x - 1), y \in 0..(dims.y - 1)}
        \cup {Pos(dims.x, 0), Pos(-1, -1)}

PlayerMoves(dims) ==
    {Resign, MoveNone} \cup {MovePlay(c, p) : c \in Colors, p \in PlayerTried(dims)}

\* one more command read by the protocol loop
Command(l, tag) == [l EXCEPT !.cmds = @ + 1, !.prev = l.last, !.last = tag]

\* play: player.play_move(m)
PlayMove ==
    \E m \in PlayerMoves(pl.p.board.dims) :
        /\ pl.pc = "idle"
        /\ pl.cmds < MaxCmds
        /\ pl' = [Command(pl, IF play_move(pl.p, m).ret THEN "play ok"
                              ELSE "play invalid move")
                  EXCEPT !.p = play_move(pl.p, m).p]
        /\ UNCHANGED <<board, played, nops, av, ex, ro, tx, htp, ws, rc>>

\* undo: player.undo()
Undo ==
    /\ pl.pc = "idle"
    /\ pl.cmds < MaxCmds
    /\ pl' = [Command(pl, "undo") EXCEPT !.p = undo(pl.p)]
    /\ UNCHANGED <<board, played, nops, av, ex, ro, tx, htp, ws, rc>>

\* boardsize: player.set_board_size(n, n)
SetBoardSize ==
    \E n \in PlayerSizes :
        /\ pl.pc = "idle"
        /\ pl.cmds < MaxCmds
        /\ pl' = [Command(pl, "boardsize") EXCEPT !.p = set_board_size(pl.p, n, n)]
        /\ UNCHANGED <<board, played, nops, av, ex, ro, tx, htp, ws, rc>>

\* genmove that starts its search without looking at the winner
GenerateMove_NoWinnerTest ==
    \E color \in Colors :
        /\ pl.pc = "idle"
        /\ pl.cmds < MaxCmds
        /\ pl' = [Command(pl, "genmove")
                  EXCEPT !.p = IF color # pl.p.board.to_play
                               THEN clear_tree([pl.p EXCEPT !.board.to_play = color])
                               ELSE pl.p,
                         !.pc = "search",
                         !.color = color,
                         !.iters = 0]
        /\ UNCHANGED <<board, played, nops, av, ex, ro, tx, htp, ws, rc>>

\* genmove: generate_move up to the spawn of the search thread
GenerateMove ==
    \E color \in Colors :
        /\ pl.pc = "idle"
        /\ pl.cmds < MaxCmds
        /\ IF pl.p.board.winner # "None"
           THEN pl' = Command(pl, "genmove resign")
           ELSE pl' = [Command(pl, "genmove")
                       EXCEPT !.p = IF color # pl.p.board.to_play
                                    THEN clear_tree([pl.p EXCEPT !.board.to_play = color])
                                    ELSE pl.p,
                              !.pc = "search",
                              !.color = color,
                              !.iters = 0]
        /\ UNCHANGED <<board, played, nops, av, ex, ro, tx, htp, ws, rc>>

\* SearchThread::search, the loop entered once more; select_node up to its
\* while loop
SearchSelect ==
    /\ pl.pc = "search"
    /\ pl.iters < MaxIters
    /\ pl' = [pl EXCEPT !.p.tree = visit(@), !.path = <<>>, !.pc = "select"]
    /\ ro' = [RoNew(pl.p.board.dims) EXCEPT !.state = pl.p.board, !.phase = "select"]
    /\ UNCHANGED <<board, played, nops, av, ex, tx, htp, ws, rc>>

\* roll_out entered with the state select_node returns
RoEnter(state) ==
    [RoNew(state.dims) EXCEPT !.state = state,
                              !.phase = "loop",
                              !.empty_cells = iter_empty(state),
                              !.at_start = Len(iter_empty(state))]

\* select_node: one pass of the while loop, or the expansion after it
SearchDescend ==
    LET node == NodeAt(pl.p.tree, pl.path) IN
    /\ pl.pc = "select"
    /\ IF Len(node.children) # 0
       THEN \E k \in max_nodes(node) :
               LET child == visit(node.children[k])
                   state == play(ro.state, child.action).b
               IN  /\ pl' = [pl EXCEPT
                               !.p.tree = ReplaceAt(@, Append(pl.path, k), child),
                               !.path = Append(@, k),
                               !.pc = IF child.mc.n = 1 THEN "roll_out" ELSE "select"]
                   /\ ro' = IF child.mc.n = 1 THEN RoEnter(state)
                            ELSE [ro EXCEPT !.state = state]
       ELSE IF ro.state.winner # "None"
       THEN /\ pl' = [pl EXCEPT !.pc = "roll_out"]
            /\ ro' = RoEnter(ro.state)
       ELSE LET grown == add_children(node, expand_children(ro.state.to_play, ro.state))
            IN  IF Len(grown.children) = 0
                THEN /\ pl' = [pl EXCEPT !.pc = "panic",
                                         !.why = "choose on no children",
                                         !.p.tree = ReplaceAt(@, pl.path, grown)]
                     /\ ro' = ro
                ELSE \E k \in 1..Len(grown.children) :
                        LET child == visit(grown.children[k])
                        IN  /\ pl' = [pl EXCEPT
                                        !.p.tree = ReplaceAt(@, pl.path,
                                            [grown EXCEPT !.children[k] = child]),
                                        !.path = Append(@, k),
                                        !.pc = "roll_out"]
                            /\ ro' = RoEnter(play(ro.state, child.action).b)
    /\ UNCHANGED <<board, played, nops, av, ex, tx, htp, ws, rc>>

\* roll_out: one pass of its loop
SearchRollOut ==
    \E start \in 0..(Len(bridge_patterns) - 1) :
        \E pos_idx \in 0..(IF Len(ro.empty_cells) = 0 THEN 0
                            ELSE Len(ro.empty_cells) - 1) :
            /\ pl.pc = "roll_out"
            /\ ro' = roll_out_step(ro, start, pos_idx)
            /\ pl' = [pl EXCEPT !.pc = CASE ro'.phase = "done" -> "back_up"
                                         [] ro'.phase = "panic" -> "panic"
                                         [] OTHER -> "roll_out",
                                !.why = ro'.why]
            /\ UNCHANGED <<board, played, nops, av, ex, tx, htp, ws, rc>>

\* back_up with the winner roll_out returns
SearchBackUp ==
    /\ pl.pc = "back_up"
    /\ pl' = [pl EXCEPT !.p.tree = back_up(@, pl.path, ro.state.winner, ro.state),
                        !.path = <<>>,
                        !.iters = @ + 1,
                        !.pc = "search"]
    /\ ro' = RoNew(Pos(1, 1))
    /\ UNCHANGED <<board, played, nops, av, ex, tx, htp, ws, rc>>

\* the time is up: the thread is joined, then best_move and play_move
SearchEnd ==
    /\ pl.pc = "search"
    /\ IF Len(pl.p.tree.children) = 0
       THEN pl' = [pl EXCEPT !.pc = "panic", !.why = "best_move on no children"]
       ELSE \E k \in best_nodes(pl.p.tree) :
               pl' = [pl EXCEPT !.p = play_move(pl.p, pl.p.tree.children[k].action).p,
                                !.pc = "idle"]
    /\ UNCHANGED <<board, played, nops, av, ex, ro, tx, htp, ws, rc>>

Init ==
    /\ \E n \in PlayerSizes : pl = PlNew(Pos(n, n))
    /\ tx = TxNew
    /\ htp = HtpNew
    /\ ws = WsNew(Pos(1, 1))
    /\ rc = RcNew(Pos(1, 1))
    /\ ro = RoNew(Pos(1, 1))
    /\ board = BoardNew(Pos(1, 1))
    /\ played = <<>>
    /\ nops = 0
    /\ av = AvNew
    /\ ex = ExNew(Pos(1, 1))

Next ==
    \/ PlayMove
    \/ Undo
    \/ SetBoardSize
    \/ GenerateMove
    \/ SearchSelect
    \/ SearchDescend
    \/ SearchRollOut
    \/ SearchBackUp
    \/ SearchEnd

Spec == Init /\ [][Next]_vars

-----------------------------------------------------------------------------
(* Positions written and read back.                                        *)

\* format!("{}", p) for a position of the 26 columns and 26 rows
TxFormat ==
    \E x \in 0..(Letters - 1), y \in 0..(Letters - 1), checked \in BOOLEAN :
        /\ tx.phase = "start"
        /\ tx' = [tx EXCEPT !.phase = "text",
                            !.checked = checked,
                            !.from = "formatted",
                            !.p = Pos(x, y),
                            !.text = fmt_pos(Pos(x, y), checked).text]
        /\ UNCHANGED <<board, played, nops, av, ex, ro, pl, htp, ws, rc>>

\* a text typed by the user
TxType ==
    \E c \in TypedFirst, row \in TypedRows, checked \in BOOLEAN :
        /\ tx.phase = "start"
        /\ tx' = [tx EXCEPT !.phase = "text",
                            !.checked = checked,
                            !.from = "typed",
                            !.text = <<c>> \o row]
        /\ UNCHANGED <<board, played, nops, av, ex, ro, pl, htp, ws, rc>>

\* text.parse::<Pos>()
TxParse ==
    /\ tx.phase = "text"
    /\ tx' = [tx EXCEPT !.phase = "parsed", !.parsed = from_str(tx.text, tx.checked)]
    /\ UNCHANGED <<board, played, nops, av, ex, ro, pl, htp, ws, rc>>

InitPos ==
    /\ tx = TxNew
    /\ htp = HtpNew
    /\ ws = WsNew(Pos(1, 1))
    /\ rc = RcNew(Pos(1, 1))
    /\ pl = PlNew(Pos(1, 1))
    /\ ro = RoNew(Pos(1, 1))
    /\ board = BoardNew(Pos(1, 1))
    /\ played = <<>>
    /\ nops = 0
    /\ av = AvNew
    /\ ex = ExNew(Pos(1, 1))

NextPos == TxFormat \/ TxType \/ TxParse

SpecPos == InitPos /\ [][NextPos]_vars

-----------------------------------------------------------------------------
(* The protocol session: lines are read and answered one at a time; a      *)
(* genmove line is answered when generate_move returns from its search.    *)

\* one line read and dispatched; checked is the build (overflow checks)
HtpRead ==
    \E words \in Lines, checked \in BOOLEAN :
        LET h    == [htp EXCEPT !.input = Append(@, words)]
            a    == arm(words)
            pa   == play_arg(words[2], words[3], checked)
            cols == parse_coord(words[2])
            rows == parse_coord(words[3])
        IN
        /\ htp.status = "reading"
        /\ Len(htp.input) < MaxLines
        /\ CASE a = "genmove" ->
                  IF ~color_from_str(words[2]).ok
                  THEN htp' = write_err(h, "invalid color") /\ pl' = pl
                  ELSE IF pl.p.board.winner # "None"
                  THEN htp' = write_ok(h, "resign") /\ pl' = pl
                  ELSE /\ htp' = [h EXCEPT !.status = "genmove"]
                       /\ pl' = [pl EXCEPT
                                   !.p = IF color_from_str(words[2]).color # pl.p.board.to_play
                                         THEN clear_tree([pl.p EXCEPT !.board.to_play =
                                                  color_from_str(words[2]).color])
                                         ELSE pl.p,
                                   !.pc = "search",
                                   !.color = color_from_str(words[2]).color,
                                   !.iters = 0]
             [] a = "play" ->
                  IF pa.panic
                  THEN htp' = [h EXCEPT !.status = "panic"] /\ pl' = pl
                  ELSE IF ~pa.ok
                  THEN htp' = write_err(h, pa.err) /\ pl' = pl
                  ELSE /\ pl' = [pl EXCEPT !.p = play_move(pl.p, pa.m).p]
                       /\ htp' = IF play_move(pl.p, pa.m).ret THEN write_ok(h, "")
                                 ELSE write_err(h, "invalid move")
             [] a = "undo" ->
                  htp' = write_ok(h, "") /\ pl' = [pl EXCEPT !.p = undo(pl.p)]
             [] a \in {"showboard", "name", "version", "hexgui-analyze_commands"} ->
                  htp' = write_ok(h, a) /\ pl' = pl
             [] a = "boardsize" ->
                  IF ~cols.ok \/ ~rows.ok
                  THEN htp' = write_err(h, "invalid size") /\ pl' = pl
                  ELSE /\ htp' = write_ok(h, "")
                       /\ pl' = [pl EXCEPT !.p = set_board_size(pl.p, cols.val, rows.val)]
             [] a = "quit" ->
                  htp' = [write_ok(h, "") EXCEPT !.status = "quit"] /\ pl' = pl
             [] a = "final_score" ->
                  /\ htp' = IF pl.p.board.winner # "None"
                            THEN write_ok(h, pl.p.board.winner)
                            ELSE write_err(h, "game is not finished!")
                  /\ pl' = pl
             [] OTHER ->
                  htp' = write_err(h, "syntax error") /\ pl' = pl
        /\ UNCHANGED <<board, played, nops, av, ex, ro, tx, ws, rc>>

\* read returns None: the end of the input
HtpEof ==
    /\ htp.status = "reading"
    /\ htp' = [htp EXCEPT !.status = "eof"]
    /\ UNCHANGED <<board, played, nops, av, ex, ro, pl, tx, ws, rc>>

\* generate_move has returned: the move is written
HtpGenmoveReply ==
    /\ htp.status = "genmove"
    /\ pl.pc = "idle"
    /\ htp' = [write_ok(htp, "move") EXCEPT !.status = "reading"]
    /\ UNCHANGED <<board, played, nops, av, ex, ro, pl, tx, ws, rc>>

\* the search thread has panicked: join().unwrap() panics in HTP::run's
\* thread and the process ends
HtpGenmovePanic ==
    /\ htp.status = "genmove"
    /\ pl.pc = "panic"
    /\ htp' = [htp EXCEPT !.status = "panic"]
    /\ UNCHANGED <<board, played, nops, av, ex, ro, pl, tx, ws, rc>>

InitHTP ==
    /\ htp = HtpNew
    /\ ws = WsNew(Pos(1, 1))
    /\ rc = RcNew(Pos(1, 1))
    /\ \E n \in PlayerSizes : pl = PlNew(Pos(n, n))
    /\ tx = TxNew
    /\ ro = RoNew(Pos(1, 1))
    /\ board = BoardNew(Pos(1, 1))
    /\ played = <<>>
    /\ nops = 0
    /\ av = AvNew
    /\ ex = ExNew(Pos(1, 1))

NextHTP ==
    \/ HtpRead
    \/ HtpEof
    \/ HtpGenmoveReply
    \/ HtpGenmovePanic
    \/ SearchSelect
    \/ SearchDescend
    \/ SearchRollOut
    \/ SearchBackUp
    \/ SearchEnd

SpecHTP == InitHTP /\ [][NextHTP]_vars

-----------------------------------------------------------------------------
(* The workers' steps.                                                     *)

\* the game before the search: accepted plays while nobody has won
WsLeadPlay ==
    \E c \in Colors, p \in Cells(ws.board) :
        /\ ws.phase = "lead"
        /\ ws.board.winner = "None"
        /\ Len(iter_empty(ws.board)) > area(ws.board.dims) - MaxLead
        /\ play(ws.board, MovePlay(c, p)).ret
        /\ ws' = [ws EXCEPT !.board = play(ws.board, MovePlay(c, p)).b]
        /\ UNCHANGED <<board, played, nops, av, ex, ro, pl, tx, htp, rc>>

\* MCTSPlayer::search: the threads are spawned with clones of the board
WsSpawn ==
    /\ ws.phase = "lead"
    /\ ws.board.winner = "None"
    /\ ws' = [ws EXCEPT !.phase = "search",
                        !.w = [t \in Workers |-> WorkerNew(ws.board)]]
    /\ UNCHANGED <<board, played, nops, av, ex, ro, pl, tx, htp, rc>>

\* select_node up to its loop: the root is visited
WsSelect(t) ==
    /\ ws.phase = "search"
    /\ ws.w[t].pc = "start"
    /\ ws.w[t].iters < WorkerIters
    /\ ws' = [ws EXCEPT !.tree = visit(@),
                        !.w[t].path = <<>>,
                        !.w[t].state = ws.board,
                        !.w[t].pc = "loop"]
    /\ UNCHANGED <<board, played, nops, av, ex, ro, pl, tx, htp, rc>>

\* the thread has made its iterations and is joined
WsJoin(t) ==
    /\ ws.phase = "search"
    /\ ws.w[t].pc = "start"
    /\ ws.w[t].iters = WorkerIters
    /\ ws' = [ws EXCEPT !.w[t].pc = "joined"]
    /\ UNCHANGED <<board, played, nops, av, ex, ro, pl, tx, htp, rc>>

\* select_node: children().len() and the loop over the values of the
\* children; value() of a visited child unwraps its parent link
WsLoop(t) ==
    LET node == NodeAt(ws.tree, ws.w[t].path) IN
    /\ ws.w[t].pc = "loop"
    /\ IF Len(node.children) = 0
       THEN ws' = [ws EXCEPT !.w[t].pc = "expand"]
       ELSE IF \E k \in 1..Len(node.children) :
                   node.children[k].mc.n # 0 /\ ~node.children[k].parent
       THEN ws' = [ws EXCEPT !.w[t].pc = "panic"]
       ELSE \E k \in max_nodes(node) :
               ws' = [ws EXCEPT !.w[t].k = k, !.w[t].pc = "visit"]
    /\ UNCHANGED <<board, played, nops, av, ex, ro, pl, tx, htp, rc>>

\* select_node: max_node is visited and its action played on the clone
WsVisit(t) ==
    LET path == Append(ws.w[t].path, ws.w[t].k) IN
    /\ ws.w[t].pc = "visit"
    /\ ws' = [ws EXCEPT
                !.tree = ReplaceAt(@, path, visit(NodeAt(ws.tree, path))),
                !.w[t].path = path,
                !.w[t].state = play(@, NodeAt(ws.tree, path).action).b,
                !.w[t].pc = "visited"]
    /\ UNCHANGED <<board, played, nops, av, ex, ro, pl, tx, htp, rc>>

\* select_node: if node.mc.n() == 1 { return }
WsVisited(t) ==
    /\ ws.w[t].pc = "visited"
    /\ ws' = [ws EXCEPT !.w[t].pc =
                 IF NodeAt(ws.tree, ws.w[t].path).mc.n = 1 THEN "roll_out" ELSE "loop"]
    /\ UNCHANGED <<board, played, nops, av, ex, ro, pl, tx, htp, rc>>

\* expand: add_children up to children.init, which publishes the vector
\* built by the first caller and refuses the others
WsExpand(t) ==
    LET node == NodeAt(ws.tree, ws.w[t].path)
        kids == expand_children(ws.w[t].state.to_play, ws.w[t].state)
    IN
    /\ ws.w[t].pc = "expand"
    /\ IF ws.w[t].state.winner # "None"
       THEN ws' = [ws EXCEPT !.w[t].pc = "roll_out"]
       ELSE IF Len(node.children) # 0
       THEN ws' = [ws EXCEPT !.w[t].pc = "choose"]
       ELSE ws' = [ws EXCEPT
                     !.tree = ReplaceAt(@, ws.w[t].path,
                                 [node EXCEPT !.children =
                                     [k \in 1..Len(kids) |-> MCTSNodeNew(kids[k])]]),
                     !.w[t].k = 1,
                     !.w[t].pc = "parents"]
    /\ UNCHANGED <<board, played, nops, av, ex, ro, pl, tx, htp, rc>>

\* add_children: child.get_mut().parent = Some(..), one child at a time
WsSetParent(t) ==
    LET node == NodeAt(ws.tree, ws.w[t].path) IN
    /\ ws.w[t].pc = "parents"
    /\ IF ws.w[t].k > Len(node.children)
       THEN ws' = [ws EXCEPT !.w[t].pc = "choose"]
       ELSE ws' = [ws EXCEPT
                     !.tree = ReplaceAt(@, ws.w[t].path,
                                 [node EXCEPT !.children[ws.w[t].k].parent = TRUE]),
                     !.w[t].k = @ + 1]
    /\ UNCHANGED <<board, played, nops, av, ex, ro, pl, tx, htp, rc>>

\* select_node after expand: a child chosen at random is visited and played
WsChoose(t) ==
    LET node == NodeAt(ws.tree, ws.w[t].path) IN
    /\ ws.w[t].pc = "choose"
    /\ IF Len(node.children) = 0
       THEN ws' = [ws EXCEPT !.w[t].pc = "panic"]
       ELSE \E k \in 1..Len(node.children) :
               ws' = [ws EXCEPT
                        !.tree = ReplaceAt(@, Append(ws.w[t].path, k),
                                           visit(node.children[k])),
                        !.w[t].path = Append(@, k),
                        !.w[t].state = play(@, node.children[k].action).b,
                        !.w[t].pc = "roll_out"]
    /\ UNCHANGED <<board, played, nops, av, ex, ro, pl, tx, htp, rc>>

\* roll_out on the clone, and back_up up to its loop
WsRollOut(t) ==
    /\ ws.w[t].pc = "roll_out"
    /\ \E r \in roll_outs({RoEnter(ws.w[t].state)}) :
          IF r.phase = "panic"
          THEN ws' = [ws EXCEPT !.w[t].pc = "panic"]
          ELSE ws' = [ws EXCEPT
                        !.w[t].state = r.state,
                        !.w[t].actions = iter_filled(r.state),
                        !.w[t].reward =
                            IF r.state.winner =
                                  color_of(NodeAt(ws.tree, ws.w[t].path).action)
                            THEN 1 ELSE 0,
                        !.w[t].pc = "back_up"]
    /\ UNCHANGED <<board, played, nops, av, ex, ro, pl, tx, htp, rc>>

\* back_up: the node is rewarded and its parent link read
WsBackUp(t) ==
    LET node == NodeAt(ws.tree, ws.w[t].path) IN
    /\ ws.w[t].pc = "back_up"
    /\ ws' = [ws EXCEPT
                !.tree = ReplaceAt(@, ws.w[t].path,
                            [node EXCEPT !.mc.q = @ + ws.w[t].reward]),
                !.rewarded = Rewarded(@, ws.w[t].path),
                !.w[t].actions = @ \cup {node.action},
                !.w[t].k = 1,
                !.w[t].pc = IF node.parent THEN "rave" ELSE "start",
                !.w[t].iters = IF node.parent THEN @ ELSE @ + 1,
                !.w[t].path = IF node.parent THEN Front(@) ELSE @]
    /\ UNCHANGED <<board, played, nops, av, ex, ro, pl, tx, htp, rc>>

\* back_up, the RAVE loop at child k of the parent: rave.visit(1) when the
\* action of the child was played; after the last child the reward is flipped
WsRave(t) ==
    LET node == NodeAt(ws.tree, ws.w[t].path)
        k    == ws.w[t].k
    IN
    /\ ws.w[t].pc = "rave"
    /\ IF k > Len(node.children)
       THEN ws' = [ws EXCEPT !.w[t].reward = 1 - @, !.w[t].pc = "back_up"]
       ELSE IF node.children[k].action \in ws.w[t].actions
       THEN ws' = [ws EXCEPT
                     !.tree = ReplaceAt(@, ws.w[t].path,
                                 [node EXCEPT !.children[k].rave.n = @ + 1]),
                     !.w[t].pc = "rave_reward"]
       ELSE ws' = [ws EXCEPT !.w[t].k = @ + 1]
    /\ UNCHANGED <<board, played, nops, av, ex, ro, pl, tx, htp, rc>>

\* back_up, the RAVE loop: rave.reward(reward) on child k
WsRaveReward(t) ==
    LET node == NodeAt(ws.tree, ws.w[t].path)
        k    == ws.w[t].k
    IN
    /\ ws.w[t].pc = "rave_reward"
    /\ ws' = [ws EXCEPT
                !.tree = ReplaceAt(@, ws.w[t].path,
                            [node EXCEPT !.children[k].rave.q = @ + ws.w[t].reward]),
                !.w[t].k = @ + 1,
                !.w[t].pc = "rave"]
    /\ UNCHANGED <<board, played, nops, av, ex, ro, pl, tx, htp, rc>>

InitSearch ==
    /\ \E n \in PlayerSizes : ws = WsNew(Pos(n, n))
    /\ rc = RcNew(Pos(1, 1))
    /\ htp = HtpNew
    /\ pl = PlNew(Pos(1, 1))
    /\ tx = TxNew
    /\ ro = RoNew(Pos(1, 1))
    /\ board = BoardNew(Pos(1, 1))
    /\ played = <<>>
    /\ nops = 0
    /\ av = AvNew
    /\ ex = ExNew(Pos(1, 1))

NextSearch ==
    \/ WsLeadPlay
    \/ WsSpawn
    \/ \E t \in Workers :
          \/ WsSelect(t)
          \/ WsJoin(t)
          \/ WsLoop(t)
          \/ WsVisit(t)
          \/ WsVisited(t)
          \/ WsExpand(t)
          \/ WsSetParent(t)
          \/ WsChoose(t)
          \/ WsRollOut(t)
          \/ WsBackUp(t)
          \/ WsRave(t)
          \/ WsRaveReward(t)

SpecSearch == InitSearch /\ [][NextSearch]_vars

-----------------------------------------------------------------------------
(* Stones played on and cleared from boards of any width and height.       *)

InitRect ==
    /\ \E w \in RectSizes, h \in RectSizes : rc = RcNew(Pos(w, h))
    /\ board = BoardNew(Pos(1, 1))
    /\ played = <<>>
    /\ nops = 0
    /\ av = AvNew
    /\ ex = ExNew(Pos(1, 1))
    /\ ro = RoNew(Pos(1, 1))
    /\ pl = PlNew(Pos(1, 1))
    /\ tx = TxNew
    /\ htp = HtpNew
    /\ ws = WsNew(Pos(1, 1))

RectPlay ==
    \E c \in Colors, x \in 0..(rc.b.dims.x - 1), y \in 0..(rc.b.dims.y - 1) :
        /\ rc.status = "ok"
        /\ rc.n < MaxRectOps
        /\ rc' = IF play_panics(rc.b, MovePlay(c, Pos(x, y)))
                 THEN [rc EXCEPT !.status = "panic", !.n = @ + 1]
                 ELSE [rc EXCEPT !.b = play(@, MovePlay(c, Pos(x, y))).b, !.n = @ + 1]
        /\ UNCHANGED <<board, played, nops, av, ex, ro, pl, tx, htp, ws>>

RectClearCell ==
    \E x \in 0..(rc.b.dims.x - 1), y \in 0..(rc.b.dims.y - 1) :
        /\ rc.status = "ok"
        /\ rc.n < MaxRectOps
        /\ rc' = IF clear_panics(rc.b, Pos(x, y))
                 THEN [rc EXCEPT !.status = "panic", !.n = @ + 1]
                 ELSE [rc EXCEPT !.b = clear_cell(@, Pos(x, y)), !.n = @ + 1]
        /\ UNCHANGED <<board, played, nops, av, ex, ro, pl, tx, htp, ws>>

NextRect == RectPlay \/ RectClearCell

SpecRect == InitRect /\ [][NextRect]_vars

-----------------------------------------------------------------------------
(* The board specifications: Board::play, Board::clear_cell and Board::set *)
(* called in any order on a square board.                                  *)

\* the positions tried: the board and the ring of positions around it
TriedPos(dims) == {Pos(x, y) : x \in -1..dims.x, y \in -1..dims.y}

InitBoard ==
    /\ \E n \in BoardSizes : board = BoardNew(Pos(n, n))
    /\ played = <<>>
    /\ nops = 0
    /\ av = AvNew
    /\ ex = ExNew(Pos(1, 1))
    /\ ro = RoNew(Pos(1, 1))
    /\ pl = PlNew(Pos(1, 1))
    /\ tx = TxNew
    /\ htp = HtpNew
    /\ ws = WsNew(Pos(1, 1))
    /\ rc = RcNew(Pos(1, 1))

BoardPlay ==
    \E c \in Colors, p \in TriedPos(board.dims) :
        /\ nops < MaxOps
        /\ board' = play(board, MovePlay(c, p)).b
        /\ nops' = nops + 1
        /\ UNCHANGED <<played, av, ex, ro, pl, tx, htp, ws, rc>>

BoardPlayPass ==
    \E m \in {Resign, MoveNone} :
        /\ nops < MaxOps
        /\ board' = play(board, m).b
        /\ nops' = nops + 1
        /\ UNCHANGED <<played, av, ex, ro, pl, tx, htp, ws, rc>>

BoardClearCell ==
    \E p \in TriedPos(board.dims) :
        /\ nops < MaxOps
        /\ board' = clear_cell(board, p)
        /\ nops' = nops + 1
        /\ UNCHANGED <<played, av, ex, ro, pl, tx, htp, ws, rc>>

BoardSet ==
    \E c \in Colors, p \in TriedPos(board.dims) :
        /\ nops < MaxOps
        /\ board' = set(board, p, c).b
        /\ nops' = nops + 1
        /\ UNCHANGED <<played, av, ex, ro, pl, tx, htp, ws, rc>>

NextBoard == BoardPlay \/ BoardPlayPass \/ BoardClearCell

SpecBoard == InitBoard /\ [][NextBoard]_vars

NextBoardSet == BoardPlay \/ BoardPlayPass \/ BoardClearCell \/ BoardSet

SpecBoardSet == InitBoard /\ [][NextBoardSet]_vars

-----------------------------------------------------------------------------
(* The scripted games of the scenarios: stones of one colour placed along  *)
(* the first row (y = 0) or the first column (x = 0) of a fresh board.     *)

FirstRow(b) == {p \in Cells(b) : p.y = 0}

FirstColumn(b) == {p \in Cells(b) : p.x = 0}

PlayedCells == {played[i].pos : i \in 1..Len(played)}

InitScenario ==
    /\ board = BoardNew(Pos(ScenarioSize, ScenarioSize))
    /\ played = <<>>
    /\ nops = 0
    /\ av = AvNew
    /\ ex = ExNew(Pos(1, 1))
    /\ ro = RoNew(Pos(1, 1))
    /\ pl = PlNew(Pos(1, 1))
    /\ tx = TxNew
    /\ htp = HtpNew
    /\ ws = WsNew(Pos(1, 1))
    /\ rc = RcNew(Pos(1, 1))

ScenarioPlay ==
    \E c \in Colors, p \in FirstRow(board) \cup FirstColumn(board) :
        /\ \A i \in 1..Len(played) : played[i].color = c
        /\ \/ PlayedCells \cup {p} \subseteq FirstRow(board)
           \/ PlayedCells \cup {p} \subseteq FirstColumn(board)
        /\ play(board, MovePlay(c, p)).ret
        /\ board' = play(board, MovePlay(c, p)).b
        /\ played' = Append(played, MovePlay(c, p))
        /\ nops' = nops + 1
        /\ UNCHANGED <<av, ex, ro, pl, tx, htp, ws, rc>>

NextScenario == ScenarioPlay

SpecScenario == InitScenario /\ [][NextScenario]_vars

-----------------------------------------------------------------------------
(* The save-the-bridge scenario: stones of either colour on the cells b2,  *)
(* c1, c3, b3 and c2 of a fresh board, put there by Board::play.           *)

cell_b2 == Pos(1, 1)
cell_c1 == Pos(2, 0)
cell_c3 == Pos(2, 2)
cell_b3 == Pos(1, 2)
cell_c2 == Pos(2, 1)

BridgeCells == {cell_b2, cell_c1, cell_c3, cell_b3, cell_c2}

InitBridge ==
    /\ board = BoardNew(Pos(ScenarioSize, ScenarioSize))
    /\ played = <<>>
    /\ nops = 0
    /\ av = AvNew
    /\ ex = ExNew(Pos(1, 1))
    /\ ro = RoNew(Pos(1, 1))
    /\ pl = PlNew(Pos(1, 1))
    /\ tx = TxNew
    /\ htp = HtpNew
    /\ ws = WsNew(Pos(1, 1))
    /\ rc = RcNew(Pos(1, 1))

BridgePlay ==
    \E c \in Colors, p \in BridgeCells :
        /\ nops < MaxOps
        /\ play(board, MovePlay(c, p)).ret
        /\ board' = play(board, MovePlay(c, p)).b
        /\ played' = Append(played, MovePlay(c, p))
        /\ nops' = nops + 1
        /\ UNCHANGED <<av, ex, ro, pl, tx, htp, ws, rc>>

NextBridge == BridgePlay

SpecBridge == InitBridge /\ [][NextBridge]_vars

\* the first k cells of the first row / first column played by c, in order
RowScript(c, k) == [i \in 1..k |-> MovePlay(c, Pos(i - 1, 0))]

ColumnScript(c, k) == [i \in 1..k |-> MovePlay(c, Pos(0, i - 1))]

-----------------------------------------------------------------------------
(* C3 (I2).  For each colour c and all stones a, b of colour c: a and b    *)
(* have the same root in groups[c] iff a path of adjacent c stones joins   *)
(* them.  Stated for Board::play, Board::set and Board::clear_cell.        *)
I2_GroupsArePaths ==
    \A c \in Colors : \A p \in Stones(board, c) : \A q \in Stones(board, c) :
        SameRoot(board, c, idx_of(board, p), idx_of(board, q))
            <=> PathJoined(board, c, p, q)

I4_WinnerIsJoinedSentinels ==
    /\ \A c \in Colors :
           board.winner = c
               <=> SameRoot(board, c, edge_idx(board, 0), edge_idx(board, 1))
    /\ ~ \A c \in Colors :
           SameRoot(board, c, edge_idx(board, 0), edge_idx(board, 1))

(* C6 (scenario 1), as claimed: after Black plays the first row (a1, b1,   *)
(* ... in that order) winner() = Some(Black), and winner() is None after   *)
(* each earlier stone.                                                     *)
Scenario1_AsClaimed ==
    \A k \in 1..ScenarioSize :
        played = RowScript("Black", k)
            => board.winner = IF k = ScenarioSize THEN "Black" ELSE "None"

(* C6 (scenario 1), amended: the first row played in order by Black leaves *)
(* winner() = None after every stone, the last included; played by White   *)
(* it gives winner() = Some(White) after the last stone and None before.   *)
Scenario1_FirstRow ==
    \A c \in Colors : \A k \in 1..ScenarioSize :
        played = RowScript(c, k)
            => board.winner =
                  IF c = "White" /\ k = ScenarioSize THEN "White" ELSE "None"

Scenario1_Witness == played = RowScript("Black", ScenarioSize)

(* C7 (scenario 2), as claimed: after White plays the first column (a1,    *)
(* a2, ...) winner() = Some(White).                                        *)
Scenario2_AsClaimed ==
    played = ColumnScript("White", ScenarioSize) => board.winner = "White"

(* C7 (scenario 2), amended: the first column played in order by White     *)
(* leaves winner() = None after every stone; played by Black it gives      *)
(* winner() = Some(Black) once the full column is placed and None before.  *)
Scenario2_FirstColumn ==
    \A c \in Colors : \A k \in 1..ScenarioSize :
        played = ColumnScript(c, k)
            => board.winner =
                  IF c = "Black" /\ k = ScenarioSize THEN "Black" ELSE "None"

Scenario2_Witness == played = ColumnScript("White", ScenarioSize)

(* C8.  Of all the init calls made on one AtomicInitVec, under any         *)
(* interleaving, exactly one returns true (the first to return) and every  *)
(* other returns false; slice() returns the empty slice before an init     *)
(* has returned true and that call's vector afterwards, and the published  *)
(* pointer keeps naming that vector.                                       *)
AtomicInit_Once ==
    /\ Len(av.won) <= 1
    /\ Len(av.won) =
          Cardinality({<<t, k>> \in Threads \X (1..MaxCalls) :
                          k <= Len(av.rets[t]) /\ av.rets[t][k]})
    /\ (av.ptr # NullPtr) <=> (av.won # <<>>)
    /\ av.ptr # NullPtr =>
          /\ av.ptr \in DOMAIN av.heap
          /\ slice(av.ptr, av.heap) = av.won[1]
    /\ \A t \in Threads :
          /\ av.seen[t].read /\ ~av.seen[t].published => av.seen[t].val = <<>>
          /\ av.seen[t].read /\ av.seen[t].published => av.seen[t].val = av.won[1]
    /\ (\A t \in Threads : av.pc[t] = "idle" /\ av.calls[t] = MaxCalls)
          => Len(av.won) = 1

\* every thread has made all its calls, two threads raced through the
\* compare-and-swap, and a slice taken after the publication is on record
AtomicInit_Witness ==
    /\ \A t \in Threads : av.pc[t] = "idle" /\ av.calls[t] = MaxCalls
    /\ \E t \in Threads : av.rets[t][1] /\ ~av.rets[t][MaxCalls]
    /\ av.raced
    /\ \E t \in Threads : av.seen[t].read /\ av.seen[t].published
    /\ \E t \in Threads : av.seen[t].read /\ ~av.seen[t].published

\* the children of the expanded node, as a reader of children() finds them
ExChildren == slice(ex.ptr, ex.heap)

ExEmptyCells == {p \in Cells(ex.state) : get(ex.state, p) = "None"}

(* C9.  Once a worker's expand call on the node has returned, the node has *)
(* exactly one child per empty cell of the position at the node, the       *)
(* children carry Play{to_play, pos} for pairwise distinct empty cells     *)
(* pos, only the published children are allocated (never twice as many),   *)
(* and a worker that then reads children() gets that vector.               *)
Expand_OneShot ==
    \A w \in Workers :
        ex.pc[w] \in {"read", "done"} =>
            /\ ex.ptr # NullPtr /\ ex.ptr \in DOMAIN ex.heap
            /\ Len(ExChildren) = Cardinality(ExEmptyCells)
            /\ {ex.nodes[ExChildren[k]].action : k \in 1..Len(ExChildren)}
                  = {MovePlay(ex.state.to_play, p) : p \in ExEmptyCells}
            /\ ex.pc[w] = "done" => ex.seen[w] = ExChildren
            /\ (\A v \in Workers : ex.pc[v] = "done") =>
                  /\ DOMAIN ex.heap = {ex.ptr}
                  /\ DOMAIN ex.nodes =
                        {0} \cup {ExChildren[k] : k \in 1..Len(ExChildren)}

\* all workers have returned from expand on a fresh 3x3 board and read the
\* nine children, after two of them had raced through the compare-and-swap
Expand_Witness ==
    /\ \A w \in Workers : ex.pc[w] = "done" /\ Len(ex.seen[w]) = 9
    /\ ex.raced
    /\ ex.state = BoardNew(Pos(3, 3))

(* C10.  Called on a square board reached by legal play that has no       *)
(* winner, roll_out never panics (no filled cell chosen, no forced move    *)
(* missing from its local list, no draw from an empty list), has made at   *)
(* most as many moves as there were empty cells, and when it has left its  *)
(* loop winner() is set.                                                   *)
Rollout_Terminates ==
    /\ ro.phase # "panic"
    /\ ro.moves <= ro.at_start
    /\ ro.phase \in {"loop", "done"} =>
          Len(ro.empty_cells) = ro.at_start - ro.moves
    /\ ro.phase = "done" => ro.state.winner # "None"

\* a rollout on a 3x3 board has ended after a forced bridge reply and has
\* filled every cell that was empty at its start
Rollout_Witness ==
    /\ ro.phase = "done"
    /\ ro.forced
    /\ ro.state.dims = Pos(3, 3)
    /\ ro.moves = ro.at_start

\* the cells and the winner of two boards of the same size read the same
SameCells(a, b) ==
    /\ a.dims = b.dims
    /\ \A pos \in Cells(a) : get(a, pos) = get(b, pos)
    /\ a.winner = b.winner

(* C1.  Whenever play_move(m) returns false, the board (cells, to_play,    *)
(* last_move, winner), the search tree and the undo history are exactly    *)
(* as before the call, so that a following undo() removes the stone it     *)
(* would have removed without the rejected call.                           *)
RejectedPlay_LeavesState ==
    pl.pc = "idle" =>
        \A m \in PlayerMoves(pl.p.board.dims) :
            ~play_move(pl.p, m).ret =>
                /\ play_move(pl.p, m).p.board = pl.p.board
                /\ play_move(pl.p, m).p.tree = pl.p.tree
                /\ play_move(pl.p, m).p.moves = pl.p.moves
                /\ SameCells(undo(play_move(pl.p, m).p).board, undo(pl.p).board)

(* C2.  In every player state reached by play_move, undo and               *)
(* generate_move calls on a square board, for every move m that play_move  *)
(* accepts, play_move(m) followed by undo() leaves the occupancy and the   *)
(* colour of every cell and winner() as they were.                         *)
Undo_RestoresBoard ==
    pl.pc = "idle" =>
        \A m \in PlayerMoves(pl.p.board.dims) :
            play_move(pl.p, m).ret =>
                SameCells(undo(play_move(pl.p, m).p).board, pl.p.board)

\* on a 2x2 board that holds an earlier stone, an accepted play has just
\* been undone, and a play that wins the game is among the accepted ones
Undo_Witness ==
    /\ pl.pc = "idle"
    /\ pl.prev = "play ok"
    /\ pl.last = "undo"
    /\ pl.p.board.dims = Pos(2, 2)
    /\ pl.p.board.winner = "None"
    /\ Len(pl.p.moves) > 0
    /\ \E m \in PlayerMoves(pl.p.board.dims) :
          /\ m.kind = "Play"
          /\ play_move(pl.p, m).ret
          /\ play_move(pl.p, m).p.board.winner # "None"

(* C11.  After play_move(m) with m the action of a child of the root, the  *)
(* new root is that child: its action is m, it has no parent link, and     *)
(* its children and statistics are those the child had; when no child of   *)
(* the root has the action m, the new root is a fresh placeholder: action  *)
(* None, no children, zero statistics, no parent.                          *)
Reroot_Correct ==
    pl.pc = "idle" =>
        \A m \in PlayerMoves(pl.p.board.dims) :
            LET new  == play_move(pl.p, m).p.tree
                kids == pl.p.tree.children
                hits == {k \in 1..Len(kids) : kids[k].action = m}
            IN  IF hits # {}
                THEN \A k \in hits :
                        /\ new.action = m
                        /\ ~new.parent
                        /\ new.children = kids[k].children
                        /\ new.mc = kids[k].mc
                        /\ new.rave = kids[k].rave
                ELSE /\ new.action = MoveNone
                     /\ ~new.parent
                     /\ new.children = <<>>
                     /\ new.mc = [n |-> 0, q |-> 0]
                     /\ new.rave = [n |-> 0, q |-> 0]

\* genmove has just re-rooted the tree at a child visited twice that has
\* children of its own
Reroot_Witness ==
    /\ pl.pc = "idle"
    /\ pl.last = "genmove"
    /\ pl.p.tree.action.kind = "Play"
    /\ ~pl.p.tree.parent
    /\ pl.p.tree.mc.n >= 2
    /\ Len(pl.p.tree.children) > 0
    /\ \A k \in 1..Len(pl.p.tree.children) : pl.p.tree.children[k].parent

(* C12.  The move best_move returns is the action of a root child whose    *)
(* mc.n is the largest among the root's children, and when one child has   *)
(* strictly more visits than every other child it is that child's action.  *)
(* generate_move plays the move returned, which makes it the last entry    *)
(* of the history.                                                         *)
BestMove_MostVisited ==
    [][(pl.pc = "search" /\ pl'.pc = "idle") =>
        LET kids == pl.p.tree.children
            m    == pl'.p.moves[Len(pl'.p.moves)]
        IN  /\ \E k \in 1..Len(kids) :
                  /\ kids[k].action = m
                  /\ \A j \in 1..Len(kids) : kids[j].mc.n <= kids[k].mc.n
            /\ \A a \in 1..Len(kids) :
                  (\A j \in (1..Len(kids)) \ {a} : kids[j].mc.n < kids[a].mc.n)
                      => m = kids[a].action]_vars

\* genmove has returned a move from a 2x2 board with a cell left empty, and
\* the child it chose had been visited more than once
BestMove_Witness ==
    /\ pl.pc = "idle"
    /\ pl.last = "genmove"
    /\ pl.p.board.dims = Pos(2, 2)
    /\ Len(iter_empty(pl.p.board)) >= 1
    /\ pl.p.tree.mc.n >= 2
    /\ pl.p.tree.action = pl.p.moves[Len(pl.p.moves)]

\* every cell but pos reads the same on the two boards
SameCellsBut(a, b, pos) ==
    \A q \in Cells(a) \ {pos} : get(a, q) = get(b, q)

GenerateMove_ResignsWhenWon ==
    [][(/\ pl'.cmds = pl.cmds + 1
        /\ pl'.last \in {"genmove", "genmove resign"}
        /\ pl.p.board.winner # "None") =>
            /\ pl'.last = "genmove resign"
            /\ pl'.pc = "idle"
            /\ pl'.p = pl.p
            /\ ro' = ro]_vars

\* genmove has answered resign right after the genmove that won the game,
\* with the tree re-rooted at the winning move
Resign_Witness ==
    /\ pl.pc = "idle"
    /\ pl.last = "genmove resign"
    /\ pl.prev = "genmove"
    /\ pl.p.board.winner # "None"
    /\ pl.p.tree.action.kind = "Play"
    /\ pl.p.tree.mc.n > 0
    /\ Len(pl.p.moves) > 0

(* C15.  Board::play(m) with m a pass (Move::None) or Resign returns true, *)
(* leaves every cell, to_play and winner unchanged, and sets last_move to  *)
(* m.                                                                      *)
PlayPass_SetsLastMove ==
    \A m \in {Resign, MoveNone} :
        /\ play(board, m).ret
        /\ SameCells(play(board, m).b, board)
        /\ play(board, m).b.to_play = board.to_play
        /\ play(board, m).b.last_move = m

\* the positions up to two steps outside the board
FarPos(dims) == {Pos(x, y) : x \in -2..(dims.x + 1), y \in -2..(dims.y + 1)}

(* C16.  Board::play(Play{c, p}) returns false whenever p is off the board *)
(* (the positions beyond a corner and those more than one step outside     *)
(* included) or occupied, and then leaves the cells, to_play, last_move    *)
(* and winner unchanged; it returns true exactly when p is an empty cell   *)
(* of the board.                                                           *)
PlayRejected_LeavesBoard ==
    \A c \in Colors, p \in FarPos(board.dims) :
        LET res == play(board, MovePlay(c, p)) IN
        /\ res.ret <=> (on_board(board, p) /\ board.empty_cells[idx_of(board, p)])
        /\ ~res.ret =>
              /\ SameCells(res.b, board)
              /\ res.b.to_play = board.to_play
              /\ res.b.last_move = board.last_move

(* C18.  For every Pos p with 0 <= x < 26 and 0 <= y < 26 the text written *)
(* for p is the upper-case column letter 'A' + x followed by the decimal   *)
(* y + 1, and parsing that text yields p again; parsing does not depend    *)
(* on the case of the column letter.                                       *)
Pos_RoundTrip ==
    /\ (tx.phase # "start" /\ tx.from = "formatted") =>
          /\ tx.text[1] = 65 + tx.p.x
          /\ digits_value(Tail(tx.text)) = tx.p.y + 1
    /\ (tx.phase = "parsed" /\ tx.from = "formatted") =>
          /\ tx.parsed.ok
          /\ tx.parsed.pos = tx.p
    /\ tx.phase = "parsed" =>
          /\ tx.parsed = from_str(to_uppercase(tx.text), tx.checked)
          /\ tx.parsed = from_str(to_lowercase(tx.text), tx.checked)

\* the text "Z26" was written for the last column and row and read back
Pos_Witness ==
    /\ tx.phase = "parsed"
    /\ tx.from = "formatted"
    /\ tx.text = <<90, 50, 54>>
    /\ tx.parsed.ok
    /\ tx.parsed.pos = Pos(25, 25)

(* C17.  Every line the protocol loop reads before quit or the end of the  *)
(* input gets exactly one response, which begins with "= " or "? "; a line *)
(* that matches no command shape gets "? syntax error"; after an error     *)
(* response the session goes on with the next line; after quit no further  *)
(* line is read.                                                           *)
HTP_OneResponsePerLine ==
    /\ htp.status # "panic"
    /\ Len(htp.out) = Len(htp.input) - (IF htp.status = "genmove" THEN 1 ELSE 0)
    /\ \A i \in 1..Len(htp.out) :
          /\ htp.out[i].mark \in {"= ", "? "}
          /\ arm(htp.input[i]) = "_" => htp.out[i] = [mark |-> "? ", msg |-> "syntax error"]
          /\ (htp.out[i].mark = "? " /\ i < Len(htp.input)) => arm(htp.input[i]) # "quit"
    /\ \A i \in 1..Len(htp.input) :
          arm(htp.input[i]) = "quit" => (i = Len(htp.input) /\ htp.status = "quit")

(* C19.  The parent link of a child is set before the children vector      *)
(* holding it becomes visible: whenever the vector of the node is          *)
(* published every child in it has its parent link, and no worker gets     *)
(* from children() a node whose parent link is still unset.                *)
Children_HaveParent ==
    /\ ex.ptr # NullPtr =>
          \A k \in 1..Len(ExChildren) : ex.nodes[ExChildren[k]].parent # -1
    /\ ~ex.orphans

\* how often back_up has rewarded the node at path
RewardedAt(path) == IF path \in DOMAIN ws.rewarded THEN ws.rewarded[path] ELSE 0

(* C20.  Every visit select_node makes is matched by a reward of back_up:  *)
(* under any interleaving of the workers, once all of them are joined the  *)
(* root's mc.n is the number of iterations made, and every node has been   *)
(* rewarded by back_up as often as it was visited, the nodes of each       *)
(* selection path and no others.                                           *)
Visits_MatchBackUps ==
    (ws.phase = "search" /\ \A t \in Workers : ws.w[t].pc = "joined") =>
        /\ ws.tree.mc.n = NumWorkers * WorkerIters
        /\ \A path \in Paths(ws.tree) :
              NodeAt(ws.tree, path).mc.n = RewardedAt(path)
        /\ DOMAIN ws.rewarded \subseteq Paths(ws.tree)

\* the paths from the root down to path, both included
Prefixes(path) == {SubSeq(path, 1, k) : k \in 0..Len(path)}

(* C21.  On every back_up, each node from the selected node up to the root *)
(* (a placeholder root without a move left aside) gets 1 added to its mc.q *)
(* when the colour of its own action is the winner of the rollout and 0    *)
(* otherwise: the flip of the reward at each level follows the colours of  *)
(* the actions on the path.                                                *)
BackUp_RewardFollowsColour ==
    [][pl.pc = "back_up" =>
          \A q \in Prefixes(pl.path) :
              LET node == NodeAt(pl.p.tree, q) IN
              node.action.kind = "Play" =>
                  NodeAt(pl'.p.tree, q).mc.q - node.mc.q =
                      IF node.action.color = ro.state.winner THEN 1 ELSE 0]_vars

\* a back_up is about to walk up from a grandchild of the root
BackUp_Witness ==
    /\ pl.pc = "back_up"
    /\ Len(pl.path) >= 2
    /\ ro.state.winner \in Colors

\* played_set when back_up, started at path, has walked up to the node at q:
\* the filled cells of the board the rollout ended on and the actions of the
\* nodes left so far
PlayedSet(tree, path, q, endgame) ==
    iter_filled(endgame) \cup
        {NodeAt(tree, SubSeq(path, 1, k)).action : k \in (Len(q) + 1)..Len(path)}

(* C22.  On every back_up, at each ancestor of the selected node, a child  *)
(* whose action is in played_set gets its rave.n incremented and its       *)
(* rave.q increased by 1 when the child's colour is the winner of the      *)
(* rollout and by 0 otherwise; a child whose action is not in played_set   *)
(* keeps its rave.n and rave.q.                                            *)
BackUp_Rave ==
    [][pl.pc = "back_up" =>
          \A q \in Prefixes(pl.path) \ {pl.path} :
              \A k \in 1..Len(NodeAt(pl.p.tree, q).children) :
                  LET child == NodeAt(pl.p.tree, Append(q, k))
                      after == NodeAt(pl'.p.tree, Append(q, k))
                  IN  IF child.action \in PlayedSet(pl.p.tree, pl.path, q, ro.state)
                      THEN /\ after.rave.n = child.rave.n + 1
                           /\ after.rave.q = child.rave.q +
                                (IF color_of(child.action) = ro.state.winner
                                 THEN 1 ELSE 0)
                      ELSE after.rave = child.rave]_vars

\* a back_up is about to walk up to a root of which one child, off the
\* path, was played in the rollout and another was not
BackUp_RaveWitness ==
    /\ pl.pc = "back_up"
    /\ Len(pl.path) >= 1
    /\ \E j, k \in 1..Len(pl.p.tree.children) :
          /\ j # pl.path[1]
          /\ pl.p.tree.children[j].action \in iter_filled(ro.state)
          /\ pl.p.tree.children[k].action \notin iter_filled(ro.state)

\* the four counters of a node
Counters(node) == <<node.mc.n, node.mc.q, node.rave.n, node.rave.q>>

(* C23.  In every state of a search by several workers, the states in the  *)
(* middle of an iteration included, every node of the tree has             *)
(* 0 <= mc.q <= mc.n and 0 <= rave.q <= rave.n, and no step lowers any of  *)
(* the four counters of any node.                                          *)
Stats_BoundedMonotonic ==
    /\ [](\A path \in Paths(ws.tree) :
             LET node == NodeAt(ws.tree, path) IN
             /\ 0 <= node.mc.q /\ node.mc.q <= node.mc.n
             /\ 0 <= node.rave.q /\ node.rave.q <= node.rave.n)
    /\ [][\A path \in Paths(ws.tree) :
             /\ path \in Paths(ws'.tree)
             /\ \A i \in 1..4 : Counters(NodeAt(ws.tree, path))[i] <=
                                Counters(NodeAt(ws'.tree, path))[i]]_vars

\* one worker stands between rave.visit and rave.reward of a child while
\* the other has visited the root as well and has not backed up to it
Stats_Witness ==
    /\ \E t \in Workers : ws.w[t].pc = "rave_reward" /\ ws.w[t].reward = 1
    /\ ws.tree.mc.n = 2
    /\ RewardedAt(<<>>) = 0

\* the children of node that have not been visited
Unvisited(node) == {k \in 1..Len(node.children) : node.children[k].mc.n = 0}

(* C24.  With the single search thread, a pass of the selection loop at a  *)
(* node that has an unvisited child descends into the first unvisited      *)
(* child, never into a visited one; and in every state no child of a node  *)
(* has been visited twice while a sibling has not been visited.            *)
Select_UnvisitedFirst ==
    /\ [][(pl.pc = "select" /\ Unvisited(NodeAt(pl.p.tree, pl.path)) # {}) =>
             LET node == NodeAt(pl.p.tree, pl.path)
                 k    == pl'.path[Len(pl'.path)]
             IN  /\ pl'.path = Append(pl.path, k)
                 /\ k \in Unvisited(node)
                 /\ \A j \in Unvisited(node) : k <= j
                 /\ NodeAt(pl'.p.tree, pl'.path).mc.n = 1]_vars
    /\ [](\A path \in Paths(pl.p.tree) :
             LET node == NodeAt(pl.p.tree, path) IN
             (\E k \in 1..Len(node.children) : node.children[k].mc.n >= 2) =>
                 Unvisited(node) = {})

\* the selection loop stands at a node whose first child has been visited
\* and which has an unvisited child further on
Select_Witness ==
    /\ pl.pc = "select"
    /\ Len(NodeAt(pl.p.tree, pl.path).children) >= 2
    /\ NodeAt(pl.p.tree, pl.path).children[1].mc.n > 0
    /\ Unvisited(NodeAt(pl.p.tree, pl.path)) # {}

\* the six positions around pos
Ring(pos) == {q \in {Pos(pos.x + dx, pos.y + dy) : dx \in -1..1, dy \in -1..1} :
                 Adjacent(pos, q)}

\* R answers an intrusion at pos: an empty cell of the board next to pos,
\* with the two positions next to both pos and R reading as to_play's colour
SavesBridge(b, pos, R) ==
    /\ on_board(b, R)
    /\ b.empty_cells[idx_of(b, R)]
    /\ Adjacent(pos, R)
    /\ Cardinality({q \in Ring(pos) : Adjacent(q, R)}) = 2
    /\ \A q \in Ring(pos) : Adjacent(q, R) => get(b, q) = b.to_play

(* C25.  For every value drawn for the rotation start, must_play returns   *)
(* Resign exactly when the board has a winner; a Play it returns is a move *)
(* of to_play on an empty cell R of the board next to the last move's      *)
(* position, with the two positions next to both reading as to_play's      *)
(* colour (a stone or its own edge); and it returns Move::None exactly     *)
(* when nobody has won and the last move is not a Play or no position      *)
(* around it is such a cell.                                               *)
MustPlay_SavesBridge ==
    \A start \in 0..(Len(bridge_patterns) - 1) :
        LET r == must_play(board, start) IN
        /\ r.kind = "Resign" <=> board.winner # "None"
        /\ r.kind = "Play" =>
              /\ r.color = board.to_play
              /\ board.last_move.kind = "Play"
              /\ SavesBridge(board, board.last_move.pos, r.pos)
        /\ r.kind = "None" <=>
              /\ board.winner = "None"
              /\ \/ board.last_move.kind # "Play"
                 \/ \A R \in Ring(board.last_move.pos) :
                       ~SavesBridge(board, board.last_move.pos, R)

\* a board on which must_play answers with a cell between a stone and an
\* edge of the side to play
MustPlay_Witness ==
    /\ nops > 0
    /\ \E start \in 0..(Len(bridge_patterns) - 1) :
          LET r == must_play(board, start) IN
          /\ r.kind = "Play"
          /\ \E q \in Ring(board.last_move.pos) :
                Adjacent(q, r.pos) /\ ~on_board(board, q)
          /\ \E q \in Ring(board.last_move.pos) :
                Adjacent(q, r.pos) /\ on_board(board, q)

\* the stones played so far are those of stones, and the last one is last
BridgeSetUp(stones, last) ==
    /\ Len(played) = Cardinality(stones) + 1
    /\ {played[i] : i \in 1..(Len(played) - 1)} = stones
    /\ played[Len(played)] = last

(* C26, as claimed.  Scenario 3: with Black at b2 and c1 on an otherwise   *)
(* empty board, after White's move at b3 must_play returns Play{Black, b3} *)
(* or Play{Black, c2} for every rotation start.                            *)
Scenario3_AsClaimed ==
    BridgeSetUp({MovePlay("Black", cell_b2), MovePlay("Black", cell_c1)},
                MovePlay("White", cell_b3)) =>
        \A start \in 0..(Len(bridge_patterns) - 1) :
            must_play(board, start) \in
                {MovePlay("Black", cell_b3), MovePlay("Black", cell_c2)}

(* C26, amended.  Scenario 3: b2 and c3 are the cells whose common         *)
(* neighbours are b3 and c2.  With Black at b2 and c3 on an otherwise      *)
(* empty board, after White's move at b3 must_play returns Play{Black, c2} *)
(* for every rotation start, and after White's move at c2 it returns       *)
(* Play{Black, b3}; with Black at b2 and c1, which are adjacent cells, it  *)
(* returns Move::None after White's move at b3.                            *)
Scenario3_Bridge ==
    \A start \in 0..(Len(bridge_patterns) - 1) :
        /\ BridgeSetUp({MovePlay("Black", cell_b2), MovePlay("Black", cell_c3)},
                       MovePlay("White", cell_b3)) =>
              must_play(board, start) = MovePlay("Black", cell_c2)
        /\ BridgeSetUp({MovePlay("Black", cell_b2), MovePlay("Black", cell_c3)},
                       MovePlay("White", cell_c2)) =>
              must_play(board, start) = MovePlay("Black", cell_b3)
        /\ BridgeSetUp({MovePlay("Black", cell_b2), MovePlay("Black", cell_c1)},
                       MovePlay("White", cell_b3)) =>
              must_play(board, start) = MoveNone

\* Black holds b2 and c3 and White has just played b3
Scenario3_Witness ==
    /\ BridgeSetUp({MovePlay("Black", cell_b2), MovePlay("Black", cell_c3)},
                   MovePlay("White", cell_b3))
    /\ board.to_play = "Black"
    /\ get(board, cell_c2) = "None"

\* the cells of the board of the given size
RectCells == {Pos(x, y) : x \in 0..(rc.b.dims.x - 1), y \in 0..(rc.b.dims.y - 1)}

(* C27.  On every board, the ones that are not square included, the cells  *)
(* have pairwise distinct indices within the cell arrays: no operation     *)
(* indexes outside the arrays, and Board::set on one cell leaves get() of  *)
(* every other cell as it was.                                             *)
Index_OneCellEach ==
    /\ rc.status # "panic"
    /\ \A p \in RectCells : idx_of(rc.b, p) \in 0..(area(rc.b.dims) - 1)
    /\ \A p, q \in RectCells : p # q => idx_of(rc.b, p) # idx_of(rc.b, q)
    /\ \A p \in RectCells, c \in Colors :
          \A q \in RectCells \ {p} :
              get(set(rc.b, p, c).b, q) = get(rc.b, q)

(* C28.  Every play_move(m), from the play command or from generate_move,  *)
(* appends m to the history and leaves the board as Board::play(m) leaves  *)
(* it, whether or not a root child matches and whether or not the board    *)
(* accepts m.  Every undo removes the last entry of the history, if there  *)
(* is one, and clears the cell of that entry and the tree exactly when the *)
(* entry is a Play.                                                        *)
History_OneEntryPerPlayMove ==
    [][/\ (pl.pc = "idle" /\ pl'.last \in {"play ok", "play invalid move"}
                          /\ pl'.cmds = pl.cmds + 1) =>
             \E m \in PlayerMoves(pl.p.board.dims) :
                 /\ pl'.p.moves = Append(pl.p.moves, m)
                 /\ pl'.p.board = play(pl.p.board, m).b
                 /\ (pl'.last = "play ok") = play(pl.p.board, m).ret
       /\ (pl.pc = "search" /\ pl'.pc = "idle") =>
             \E k \in 1..Len(pl.p.tree.children) :
                 /\ pl'.p.moves = Append(pl.p.moves, pl.p.tree.children[k].action)
                 /\ pl'.p.board = play(pl.p.board, pl.p.tree.children[k].action).b
       /\ (pl.pc = "idle" /\ pl'.last = "undo" /\ pl'.cmds = pl.cmds + 1) =>
             IF pl.p.moves = <<>> THEN pl'.p = pl.p
             ELSE LET m == pl.p.moves[Len(pl.p.moves)] IN
                  /\ pl'.p.moves = Front(pl.p.moves)
                  /\ IF m.kind = "Play"
                     THEN /\ pl'.p.board = clear_cell(pl.p.board, m.pos)
                          /\ pl'.p.tree = MCTSNodeNew(MoveNone)
                     ELSE /\ pl'.p.board = pl.p.board
                          /\ pl'.p.tree = pl.p.tree]_vars

\* a play the board rejected stands in the history behind an earlier move
History_Witness ==
    /\ pl.pc = "idle"
    /\ pl.last = "play invalid move"
    /\ Len(pl.p.moves) = 2
    /\ pl.p.moves[2].kind = "Play"

\* the cells of the actions below the root on the way down to path
PathCells(tree, path) ==
    [k \in 1..Len(path) |-> NodeAt(tree, SubSeq(path, 1, k)).action.pos]

\* the tree fits the board: every node below the root carries a Play on a
\* cell that is empty on the board, the cells along a path differ, and the
\* colours alternate from b.to_play down
Coherent(tree, b) ==
    \A path \in Paths(tree) \ {<<>>} :
        LET node == NodeAt(tree, path) IN
        /\ node.action.kind = "Play"
        /\ on_board(b, node.action.pos)
        /\ is_empty(b, node.action.pos)
        /\ node.action.color = IF Len(path) % 2 = 1 THEN b.to_play
                               ELSE invert(b.to_play)
        /\ \A i, j \in 1..Len(path) :
              i # j => PathCells(tree, path)[i] # PathCells(tree, path)[j]

====
